---- MODULE Spec2Model ----
(***************************************************************************)
(* Position lifecycle of the Gate.io fair-price spread bot.                *)
(*                                                                         *)
(* GateIOSpreadBot.on_ticker_update is modelled as a per-thread program    *)
(* whose steps are cut at the gateway (REST) calls of                      *)
(* GateIOTradingManager: every step is one gateway call together with the  *)
(* local code that follows it up to the next gateway call.  The exchange   *)
(* account (remote), the Telegram command thread and the wall clock are    *)
(* the environment.                                                        *)
(*                                                                         *)
(* Numbers.  Prices are integers.  A spread or an ROI is kept in basis     *)
(* points (hundredths of a percent), rounded down; since every threshold   *)
(* is a whole number of percent, x >= threshold holds of the exact value   *)
(* iff it holds of the floored basis points, so every comparison the code  *)
(* makes is decided exactly as in exact arithmetic.                        *)
(***************************************************************************)
EXTENDS Integers, Sequences, FiniteSets, TLC

(* ------------------------------------------------------------------ *)
(* Bounds of the model                                                 *)
(* ------------------------------------------------------------------ *)
Symbols == {"A", "B"}
Threads == {1, 2}

\* The exchange refuses an opening order that would take a position
\* beyond this many contracts (margin); it bounds repeated opens.
MaxRemoteSize == 8
\* The wall clock stops advancing here (seconds).
MaxNow == 60
\* The WebSocket connections the client may create in one run.
MaxConns == 3
Conns == 1..MaxConns
\* The ticker feed ends once this many trades are in the trade log.
MaxTrades == 2
\* ... and the feed of the several-thread specification once this many are.
ConcMaxTrades == 1

\* (mark_price, last) pairs a ticker may carry.
TickPrices ==
    { <<110, 100>>,   \* mark 10% above last: LONG signal, entry 100
      <<100, 110>>,   \* mark below last by 10%: SHORT signal, entry 110
      <<101, 100>>,   \* 1% spread: below the exit threshold
      <<110, 103>>,   \* 6.8% spread, last 3% above 100
      <<100, 103>>,   \* mark below last, last 3% above 100
      <<0, 100>> }    \* feed glitch

\* The tickers of the detector's specification: at the threshold in either
\* direction, below it, equal prices, a feed glitch.
DetectPrices == { <<107, 100>>, <<100, 107>>, <<106, 100>>, <<100, 100>>, <<0, 100>> }

\* The tickers of the several-thread specification.
ConcPrices == { <<110, 100>>, <<101, 100>> }

\* The tickers of the sizing specification; margin times leverage is 200 USD
\* and a contract is half a coin.
SizePrices ==
    { <<110, 100>>,   \* LONG, entry 100: 4 contracts exactly
      <<100, 110>>,   \* SHORT, entry 110: 3.64 contracts
      <<500, 450>>,   \* LONG, entry 450: 0.89 contracts
      <<101, 100>> }  \* 1% spread: below the exit threshold

\* The tickers and the starting sizes of the exit specification: a position
\* of one contract cannot be halved.
ExitPrices ==
    { <<110, 100>>,   \* LONG signal, entry 100
      <<100, 110>>,   \* SHORT signal, entry 110; a long is reversed
      <<110, 103>>,   \* 6.8% spread, a long from 100 is 60% up
      <<101, 100>> }  \* 1% spread: below the exit threshold
ExitSizes == {1, 4, -4}

\* Seconds that pass at once where the model lets less than the alert
\* cooldown pass.
ClockStep == 30

\* Sizes of the positions the account may hold when the bot starts
\* (signed: positive long, negative short; 0 none).
StartSizes == {0, 4, -4}

(* ------------------------------------------------------------------ *)
(* Configuration (config_gateio.yaml) and exchange contract data       *)
(* ------------------------------------------------------------------ *)
position_size_usd == 10
leverage == 20
exit_spread_threshold == 2
min_threshold == 7
take_profit_roi == 50
alert_cooldown == 60
symbol_whitelist == {}

\* futures_api.get_futures_contract: quanto_multiplier = num/den, order_size_min
Contract == [quanto_num |-> 1, quanto_den |-> 2, order_size_min |-> 1]
\* 'quanto_multiplier': 0.0001 when the contract does not say
DefaultQuanto == [num |-> 1, den |-> 10000]

(* ------------------------------------------------------------------ *)
(* Arithmetic                                                          *)
(* ------------------------------------------------------------------ *)
Abs(x) == IF x < 0 THEN -x ELSE x
Sign(x) == IF x < 0 THEN -1 ELSE IF x > 0 THEN 1 ELSE 0
Min(a, b) == IF a < b THEN a ELSE b
Max(a, b) == IF a > b THEN a ELSE b

\* int(round(n/d, 0)) for n >= 0, d > 0: Python rounds halves to even
RoundHalfEven(n, d) ==
    LET q == n \div d
        r == n % d
    IN  IF 2 * r < d THEN q
        ELSE IF 2 * r > d THEN q + 1
        ELSE IF q % 2 = 0 THEN q ELSE q + 1

\* ((hi - lo) / lo) * 100, in basis points
SpreadBp(hi, lo) == ((hi - lo) * 10000) \div lo

Pct(p) == p * 100   \* a whole percentage in basis points


(* ------------------------------------------------------------------ *)
(* Values                                                              *)
(* ------------------------------------------------------------------ *)
\* no entry for the symbol in open_positions
NoPos == [side |-> "none", size |-> 0, entry_price |-> 0, entry_time |-> 0,
          entry_spread |-> 0, order_id |-> "none", quanto |-> DefaultQuanto,
          partial_closed |-> FALSE, stop_loss_order_id |-> "none"]
\* no entry for the symbol in a listing (real_positions / position_cache)
NoReal == [side |-> "none", size |-> 0, entry_price |-> 0]
\* the account holds nothing for the symbol
Flat == [size |-> 0, entry_price |-> 0]
NoAlert == -1

(* ------------------------------------------------------------------ *)
(* Pure functions of the source                                        *)
(* ------------------------------------------------------------------ *)
\* detect_spread with the SHORT spread taken over the last price, as a
\* percentage of the price traded
detect_spread_over_last(la, t, symbol, mark_price, last_price) ==
    LET none == [signal_type |-> "none", spread_percent |-> 0]
    IN  IF mark_price <= 0 \/ last_price <= 0 THEN none
        ELSE IF la[symbol] # NoAlert /\ t - la[symbol] < alert_cooldown THEN none
        ELSE IF mark_price > last_price
             THEN IF SpreadBp(mark_price, last_price) >= Pct(min_threshold)
                  THEN [signal_type |-> "LONG",
                        spread_percent |-> SpreadBp(mark_price, last_price)]
                  ELSE none
        ELSE IF mark_price < last_price
             THEN IF ((last_price - mark_price) * 10000) \div last_price
                         >= Pct(min_threshold)
                  THEN [signal_type |-> "SHORT",
                        spread_percent |->
                            ((last_price - mark_price) * 10000) \div last_price]
                  ELSE none
        ELSE none

\* detect_spread with one cooldown for all symbols
detect_spread_shared_cooldown(la, t, symbol, mark_price, last_price) ==
    LET none == [signal_type |-> "none", spread_percent |-> 0]
    IN  IF mark_price <= 0 \/ last_price <= 0 THEN none
        ELSE IF \E s \in Symbols : la[s] # NoAlert /\ t - la[s] < alert_cooldown
             THEN none
        ELSE IF mark_price > last_price
             THEN IF SpreadBp(mark_price, last_price) >= Pct(min_threshold)
                  THEN [signal_type |-> "LONG",
                        spread_percent |-> SpreadBp(mark_price, last_price)]
                  ELSE none
        ELSE IF mark_price < last_price
             THEN IF SpreadBp(last_price, mark_price) >= Pct(min_threshold)
                  THEN [signal_type |-> "SHORT",
                        spread_percent |-> SpreadBp(last_price, mark_price)]
                  ELSE none
        ELSE none

\* SpreadDetector.detect_spread: the opportunity (or none) for a ticker,
\* given the alert stamps la and the time t
detect_spread(la, t, symbol, mark_price, last_price) ==
    LET none == [signal_type |-> "none", spread_percent |-> 0]
    IN  IF mark_price <= 0 \/ last_price <= 0 THEN none
        ELSE IF la[symbol] # NoAlert /\ t - la[symbol] < alert_cooldown THEN none
        ELSE IF mark_price > last_price
             THEN IF SpreadBp(mark_price, last_price) >= Pct(min_threshold)
                  THEN [signal_type |-> "LONG",
                        spread_percent |-> SpreadBp(mark_price, last_price)]
                  ELSE none
        ELSE IF mark_price < last_price
             THEN IF SpreadBp(last_price, mark_price) >= Pct(min_threshold)
                  THEN [signal_type |-> "SHORT",
                        spread_percent |-> SpreadBp(last_price, mark_price)]
                  ELSE none
        ELSE none

\* GateIOTradingManager.calculate_position_size; cinfo is what
\* get_futures_contract gave: "ok", "noquanto" (no quanto_multiplier) or
\* "error" (it raised)
calculate_position_size(price, cinfo) ==
    IF cinfo = "ok"
    THEN LET n == position_size_usd * leverage * Contract.quanto_den
             d == price * Contract.quanto_num
         IN  IF n < Contract.order_size_min * d
             THEN Contract.order_size_min
             ELSE RoundHalfEven(n, d)
    ELSE RoundHalfEven(position_size_usd * leverage, price)

\* GateIOTradingManager.calculate_unrealized_pnl, 'roi_pct' in basis points
roi_pct(position, current_price) ==
    LET price_diff == IF position.side = "long"
                      THEN current_price - position.entry_price
                      ELSE position.entry_price - current_price
        \* unrealized_pnl and margin_used over the common denominator quanto.den
        pnl_num == position.size * price_diff * position.quanto.num
        value_num == position.size * position.entry_price * position.quanto.num
    IN  IF value_num > 0
        THEN (pnl_num * leverage * 10000) \div value_num
        ELSE 0

\* the spread taken in the direction opposite to the entry
current_spread_opposite(position, mark_price, last_price) ==
    IF position.side = "long"
    THEN IF mark_price < last_price THEN SpreadBp(last_price, mark_price) ELSE 0
    ELSE IF mark_price > last_price THEN SpreadBp(mark_price, last_price) ELSE 0

\* GateIOSpreadBot.on_ticker_update: the spread in the direction of the entry
current_spread(position, mark_price, last_price) ==
    IF position.side = "long"
    THEN IF mark_price > last_price THEN SpreadBp(mark_price, last_price) ELSE 0
    ELSE IF mark_price < last_price THEN SpreadBp(last_price, mark_price) ELSE 0

\* the price relationship no longer is the one the position was entered on
reversed(position, mark_price, last_price) ==
    IF position.side = "long" THEN mark_price < last_price
    ELSE IF position.side = "short" THEN mark_price > last_price
    ELSE FALSE

\* the take-profit rule without its partial_closed guard
take_profit_due_unguarded(position, exit_price) ==
    roi_pct(position, exit_price) >= Pct(take_profit_roi)

\* check_exit_conditions, "PARTIAL TAKE PROFIT": the rule fires
take_profit_due(position, exit_price) ==
    /\ roi_pct(position, exit_price) >= Pct(take_profit_roi)
    /\ ~position.partial_closed

\* the partial size rounded up instead of truncated
partial_size_ceil(total_size, percent) == (total_size * percent + 99) \div 100

\* partial_size = int(total_size * percent / 100)
partial_size(total_size, percent) == (total_size * percent) \div 100

\* one entry of the listing get_real_positions_cached builds from the account
RealOf(acct) ==
    IF acct.size = 0 THEN NoReal
    ELSE [side |-> IF acct.size > 0 THEN "long" ELSE "short",
          size |-> Abs(acct.size), entry_price |-> acct.entry_price]

\* money is counted in units of 1/UsdUnits dollar
UsdUnits == 10000

\* the most trades the recorder is fed
MaxLogged == 3

\* the most exceptions counted in stats['errors']
MaxErrors == 2

\* Python's None where a number may stand: a number v is written <<v>>
None == <<>>

\* trade_data as close_position hands it to log_trade; real_pnl_usd is None
\* or the P&L the exchange reported, in money units
TradeData(side, entry_price, exit_price, size, quanto, real_pnl_usd) ==
    [symbol |-> "A", side |-> side, entry_price |-> entry_price,
     exit_price |-> exit_price, size |-> size, leverage |-> leverage,
     quanto_multiplier |-> quanto, real_pnl_usd |-> real_pnl_usd,
     entry_time |-> 0, exit_time |-> ClockStep]

ContractQuanto == [num |-> Contract.quanto_num, den |-> Contract.quanto_den]

\* the trades the recorder is fed: with and without a P&L from the exchange,
\* long and short, won, lost and flat, and one of no contracts
TradeInputs ==
    { TradeData("long", 100, 110, 1000, DefaultQuanto, None),
      TradeData("long", 100, 110, 1000, DefaultQuanto, <<7000>>),
      TradeData("short", 110, 100, -4, ContractQuanto, None),
      TradeData("long", 100, 97, 4, ContractQuanto, None),
      TradeData("short", 100, 110, -4, ContractQuanto, <<-150000>>),
      TradeData("long", 100, 110, 4, ContractQuanto, <<0>>),
      TradeData("long", 100, 110, 0, ContractQuanto, None) }

\* the manual P&L of trade_data, in money units: size * price_diff * quanto
manual_pnl_usd(trade_data) ==
    LET price_diff == IF trade_data.side = "long"
                      THEN trade_data.exit_price - trade_data.entry_price
                      ELSE trade_data.entry_price - trade_data.exit_price
    IN  (Abs(trade_data.size) * price_diff * trade_data.quanto_multiplier.num * UsdUnits)
            \div trade_data.quanto_multiplier.den

\* TradeAnalytics._calculate_pnl with the percentage taken from the manual
\* P&L whatever the exchange reported
_calculate_pnl_manual_percent(trade_data) ==
    LET size == Abs(trade_data.size)
        quanto == trade_data.quanto_multiplier
        pnl_usd == IF trade_data.real_pnl_usd # None
                   THEN trade_data.real_pnl_usd[1]
                   ELSE manual_pnl_usd(trade_data)
        value_num == size * trade_data.entry_price * quanto.num
        pnl_percent == IF value_num > 0
                       THEN (manual_pnl_usd(trade_data) * quanto.den * trade_data.leverage)
                                \div value_num
                       ELSE 0
    IN  [symbol |-> trade_data.symbol, side |-> trade_data.side,
         entry_price |-> trade_data.entry_price, exit_price |-> trade_data.exit_price,
         size |-> size, leverage |-> trade_data.leverage,
         pnl_usd |-> pnl_usd, pnl_percent |-> pnl_percent,
         hold_time_seconds |-> trade_data.exit_time - trade_data.entry_time]

\* TradeAnalytics._calculate_pnl with the price difference taken as
\* exit - entry for either side
_calculate_pnl_unsigned(trade_data) ==
    LET size == Abs(trade_data.size)
        quanto == trade_data.quanto_multiplier
        price_diff == trade_data.exit_price - trade_data.entry_price
        pnl_usd == IF trade_data.real_pnl_usd # None
                   THEN trade_data.real_pnl_usd[1]
                   ELSE (size * price_diff * quanto.num * UsdUnits) \div quanto.den
        value_num == size * trade_data.entry_price * quanto.num
        pnl_percent == IF value_num > 0
                       THEN (pnl_usd * quanto.den * trade_data.leverage) \div value_num
                       ELSE 0
    IN  [symbol |-> trade_data.symbol, side |-> trade_data.side,
         entry_price |-> trade_data.entry_price, exit_price |-> trade_data.exit_price,
         size |-> size, leverage |-> trade_data.leverage,
         pnl_usd |-> pnl_usd, pnl_percent |-> pnl_percent,
         hold_time_seconds |-> trade_data.exit_time - trade_data.entry_time]

\* TradeAnalytics._calculate_pnl: pnl_usd in money units, pnl_percent in basis
\* points (pnl_usd / margin_used * 100, margin_used = size*entry*quanto/leverage;
\* one money unit per dollar is one basis point per percent)
_calculate_pnl(trade_data) ==
    LET size == Abs(trade_data.size)
        quanto == trade_data.quanto_multiplier
        price_diff == IF trade_data.side = "long"
                      THEN trade_data.exit_price - trade_data.entry_price
                      ELSE trade_data.entry_price - trade_data.exit_price
        pnl_usd == IF trade_data.real_pnl_usd # None
                   THEN trade_data.real_pnl_usd[1]
                   ELSE (size * price_diff * quanto.num * UsdUnits) \div quanto.den
        \* position_value over the denominator quanto.den
        value_num == size * trade_data.entry_price * quanto.num
        pnl_percent == IF value_num > 0
                       THEN (pnl_usd * quanto.den * trade_data.leverage) \div value_num
                       ELSE 0
    IN  [symbol |-> trade_data.symbol, side |-> trade_data.side,
         entry_price |-> trade_data.entry_price, exit_price |-> trade_data.exit_price,
         size |-> size, leverage |-> trade_data.leverage,
         pnl_usd |-> pnl_usd, pnl_percent |-> pnl_percent,
         hold_time_seconds |-> trade_data.exit_time - trade_data.entry_time]

\* GateIOTradingManager.calculate_unrealized_pnl, 'unrealized_pnl' in money units
unrealized_pnl(position, current_price) ==
    LET price_diff == IF position.side = "long"
                      THEN current_price - position.entry_price
                      ELSE position.entry_price - current_price
    IN  (position.size * price_diff * position.quanto.num * UsdUnits)
            \div position.quanto.den

\* TradeAnalytics.log_trade: the record appended for trade_data built from
\* the tracked position, as far as it identifies the trade: symbol, side,
\* contracts and the tag of the order ("t-close" or "t-partial")
log_trade(symbol, position, size, text) ==
    [symbol |-> symbol, side |-> position.side, size |-> Abs(size), text |-> text]

(* ------------------------------------------------------------------ *)
(* The exchange                                                        *)
(* ------------------------------------------------------------------ *)
\* a filled market order of signed size sz at price p (one-way mode)
FillOpen(acct, sz, p) ==
    LET n == acct.size + sz
    IN  IF n = 0 THEN Flat
        ELSE [size |-> n, entry_price |-> IF acct.size = 0 THEN p ELSE acct.entry_price]

\* a filled reduce-only order of signed size sz: it only shrinks the position
FillReduce(acct, sz) ==
    IF Sign(sz) = -Sign(acct.size) /\ acct.size # 0
    THEN LET n == Sign(acct.size) * Max(0, Abs(acct.size) - Abs(sz))
         IN  IF n = 0 THEN Flat ELSE [acct EXCEPT !.size = n]
    ELSE acct

(* ------------------------------------------------------------------ *)
(* The WebSocket client                                                *)
(* ------------------------------------------------------------------ *)
\* GateIOClient.__init__: not running, no WebSocketApp.  conn[c] is the
\* life of connection c ("none": not created), on_close[c] the position of
\* its on_close handler, stop the position of GateIOSpreadBot.stop.
GateIOClient ==
    [running  |-> FALSE,
     ws       |-> 0,
     conn     |-> [c \in Conns |-> "none"],
     on_close |-> [c \in Conns |-> "idle"],
     stop     |-> "none"]

\* subscribe_tickers from "self.ws = websocket.WebSocketApp(...)" on: a new
\* connection becomes self.ws and its thread is started
WebSocketApp(client) ==
    LET c == CHOOSE c \in Conns :
                 /\ client.conn[c] = "none"
                 /\ \A d \in Conns : client.conn[d] = "none" => c <= d
    IN  [client EXCEPT !.ws = c, !.conn[c] = "started"]

\* subscribe_tickers(callback) as one step
subscribe_tickers(client) ==
    WebSocketApp([client EXCEPT !.running = TRUE])

\* sum(t['pnl_usd'] for t in trades)
RECURSIVE sum_pnl_usd(_)
sum_pnl_usd(log) ==
    IF log = <<>> THEN 0 ELSE log[1].pnl_usd + sum_pnl_usd(Tail(log))

\* TradeAnalytics.get_statistics with a trade lost only when its P&L is negative
get_statistics_strict_loss(log) ==
    LET n == Len(log)
        winning == {i \in 1..n : log[i].pnl_usd > 0}
        losing == {i \in 1..n : log[i].pnl_usd < 0}
        best == CHOOSE i \in 1..n :
                    /\ \A j \in 1..n : log[j].pnl_usd <= log[i].pnl_usd
                    /\ \A j \in 1..(i-1) : log[j].pnl_usd < log[i].pnl_usd
        worst == CHOOSE i \in 1..n :
                    /\ \A j \in 1..n : log[j].pnl_usd >= log[i].pnl_usd
                    /\ \A j \in 1..(i-1) : log[j].pnl_usd > log[i].pnl_usd
    IN  IF n = 0
        THEN [total_trades |-> 0, winning_trades |-> 0, losing_trades |-> 0,
              total_pnl |-> 0, best_trade |-> None, worst_trade |-> None]
        ELSE [total_trades |-> n,
              winning_trades |-> Cardinality(winning),
              losing_trades |-> Cardinality(losing),
              total_pnl |-> sum_pnl_usd(log),
              best_trade |-> <<log[best]>>, worst_trade |-> <<log[worst]>>]

\* TradeAnalytics.get_statistics over the recorded trades: the counts, the
\* total and the extremes (max and min return the first extreme record)
get_statistics(log) ==
    LET n == Len(log)
        winning == {i \in 1..n : log[i].pnl_usd > 0}
        losing == {i \in 1..n : log[i].pnl_usd <= 0}
        best == CHOOSE i \in 1..n :
                    /\ \A j \in 1..n : log[j].pnl_usd <= log[i].pnl_usd
                    /\ \A j \in 1..(i-1) : log[j].pnl_usd < log[i].pnl_usd
        worst == CHOOSE i \in 1..n :
                    /\ \A j \in 1..n : log[j].pnl_usd >= log[i].pnl_usd
                    /\ \A j \in 1..(i-1) : log[j].pnl_usd > log[i].pnl_usd
    IN  IF n = 0
        THEN [total_trades |-> 0, winning_trades |-> 0, losing_trades |-> 0,
              total_pnl |-> 0, best_trade |-> None, worst_trade |-> None]
        ELSE [total_trades |-> n,
              winning_trades |-> Cardinality(winning),
              losing_trades |-> Cardinality(losing),
              total_pnl |-> sum_pnl_usd(log),
              best_trade |-> <<log[best]>>, worst_trade |-> <<log[worst]>>]

\* TradeAnalytics.get_symbol_performance: per symbol the trades, wins and total
get_symbol_performance(log) ==
    [s \in {log[i].symbol : i \in 1..Len(log)} |->
        LET mine == SelectSeq(log, LAMBDA t : t.symbol = s)
        IN  [trades |-> Len(mine),
             wins |-> Len(SelectSeq(mine, LAMBDA t : t.pnl_usd > 0)),
             total_pnl |-> sum_pnl_usd(mine)]]

\* the keys of the dictionary get_statistics returns
StatisticsKeys ==
    {"total_trades", "winning_trades", "losing_trades", "win_rate", "total_pnl",
     "avg_pnl", "best_trade", "worst_trade", "avg_hold_time"}

\* PeriodicReporter._format_report: the message, or the exception where
\* building it raises: below the header it reads stats['total_fees']
_format_report(statistics, symbol_perf) ==
    IF statistics.total_trades = 0
    THEN [raised |-> FALSE, text |-> "No trades yet",
          total_trades |-> 0, total_pnl |-> 0]
    ELSE IF "total_fees" \notin StatisticsKeys
         THEN [raised |-> TRUE]
         ELSE [raised |-> FALSE, text |-> "Trading Report",
               total_trades |-> statistics.total_trades,
               total_pnl |-> statistics.total_pnl]

(* ------------------------------------------------------------------ *)
(* Telegram: the command handler and the chat                          *)
(* ------------------------------------------------------------------ *)
\* config telegram.chat_id, which is the allowed_user_id, and another sender
allowed_user_id == 1
Senders == {allowed_user_id, 2}

\* the texts of the updates that start with "/", and all the texts
Commands == {"/stop", "/start_trading", "/start", "/status", "/positions",
             "/stats", "/help", "/other"}
Texts == Commands \cup {"hello"}

\* the most updates polled
MaxUpdates == 3

\* the most messages recorded in the chat
MaxSent == 2

\* the Telegram side after GateIOSpreadBot.__init__: the command handler's
\* last_update_id, the updates it dropped as unauthorized and the replies
\* it sent; the calls of send_report and the
\* reports PeriodicReporter handed to the notifier
TelegramIdle == [last_update_id |-> 0, unauthorized |-> 0, replies |-> <<>>,
                 send_report_calls |-> 0, reports |-> <<>>]

(* ------------------------------------------------------------------ *)
(* State                                                               *)
(* ------------------------------------------------------------------ *)
VARIABLES
    open_positions,   \* GateIOTradingManager.open_positions: symbol -> position
    position_cache,   \* GateIOTradingManager.position_cache: last good listing
    position_lock,    \* GateIOTradingManager.position_lock: 0 free, else the holder
    trading_enabled,  \* GateIOSpreadBot.trading_enabled
    trading_manager,  \* GateIOSpreadBot.trading_manager is not None
    last_alert,       \* SpreadDetector.last_alert: symbol -> time of last emission
    started,          \* GateIOSpreadBot.start has subscribed the ticker callback
    th,               \* the callback threads: position in on_ticker_update, locals
    remote,           \* the exchange account: symbol -> signed size, entry price
    now,              \* time.time()
    last_call,        \* how the listing/order call of the last step ended
    open_orders,      \* opening orders filled into the account's present position
    partial_orders,   \* partial-close orders filled from the present position
    trades,           \* TradeAnalytics.trades: the records log_trade appended
    open_failed,      \* the symbol's last opportunity was not opened (history)
    gateio_client,    \* GateIOSpreadBot.gateio_client: the WebSocket client
    max_positions,    \* GateIOTradingManager.max_positions (config trading.max_positions)
    telegram,         \* TelegramCommandHandler.last_update_id, the replies it sent,
                      \* the calls of PeriodicReporter.send_report and its reports
    stats             \* GateIOSpreadBot.stats: the 'errors' counter

vars == <<open_positions, position_cache, position_lock, trading_enabled,
          trading_manager, last_alert, started, th, remote, now, last_call,
          open_orders, partial_orders, trades, open_failed, gateio_client,
          max_positions, telegram, stats>>

\* a thread outside on_ticker_update
IdleLoc == [pc |-> "idle", symbol |-> "", mark_price |-> 0, last_price |-> 0,
            signal_type |-> "none", spread_percent |-> 0,
            fresh |-> FALSE, size |-> 0, total_size |-> 0, current_spread |-> 0,
            stale |-> FALSE, stale2 |-> FALSE,
            tracked |-> FALSE, enabled |-> FALSE, reversed |-> FALSE,
            exit_checked |-> FALSE,
            full_exit_evaluated |-> FALSE, close_called |-> FALSE,
            position |-> NoPos, returned |-> "none", opened |-> FALSE]

can_open_position ==
    Cardinality({s \in Symbols : open_positions[s] # NoPos}) < max_positions

has_position(symbol) == open_positions[symbol] # NoPos

\* get_real_positions_cached(force_refresh=True): the listing it returns when
\* list_positions answered (ok) and when it raised
get_real_positions_cached(ok) ==
    IF ok THEN [s \in Symbols |-> RealOf(remote[s])] ELSE position_cache

\* the locals after thread t moved to loc; the references other threads hold
\* to the entry of symbol `replaced` now point to an object outside the ledger
Locals(t, loc, replaced) ==
    [u \in Threads |->
        IF u = t THEN loc
        ELSE IF th[u].symbol = replaced
             THEN [th[u] EXCEPT !.stale = TRUE, !.stale2 = TRUE]
             ELSE th[u]]

\* bookkeeping of a fill that changed the account's position for symbol s
Lifetime(counter, s, acct, filled) ==
    [counter EXCEPT ![s] = IF acct.size = 0 THEN 0 ELSE @ + filled]

\* the state after GateIOSpreadBot.__init__, with the account holding
\* positions of the sizes in `held` for the symbols in `syms`
InitWith(syms, held) ==
    /\ open_positions = [s \in Symbols |-> NoPos]
    /\ position_cache = [s \in Symbols |-> NoReal]
    /\ position_lock = 0
    /\ trading_enabled \in BOOLEAN
    /\ trading_manager = trading_enabled
    /\ last_alert = [s \in Symbols |-> NoAlert]
    /\ started = FALSE
    /\ th = [t \in Threads |-> IdleLoc]
    /\ remote \in [Symbols -> {[size |-> z, entry_price |-> IF z = 0 THEN 0 ELSE 100]
                                 : z \in held \cup {0}}]
    /\ \A s \in Symbols \ syms : remote[s] = Flat
    /\ now = 0
    /\ last_call = "none"
    /\ open_orders = [s \in Symbols |-> IF remote[s].size = 0 THEN 0 ELSE 1]
    /\ partial_orders = [s \in Symbols |-> 0]
    /\ trades = <<>>
    /\ open_failed = [s \in Symbols |-> FALSE]
    /\ gateio_client = GateIOClient
    /\ telegram = TelegramIdle
    /\ stats = [errors |-> 0]

Init == InitWith(Symbols, {4}) /\ max_positions = 1

(* ------------------------------------------------------------------ *)
(* Startup                                                             *)
(* ------------------------------------------------------------------ *)
\* a sync that adopts long positions only
synced_positions_long_only(real, t) ==
    [s \in Symbols |->
        IF real[s] # NoReal /\ real[s].side = "long"
        THEN [side |-> real[s].side, size |-> real[s].size,
              entry_price |-> real[s].entry_price, entry_time |-> t,
              entry_spread |-> 0,
              order_id |-> "synced", quanto |-> DefaultQuanto,
              partial_closed |-> FALSE, stop_loss_order_id |-> "none"]
        ELSE open_positions[s]]

\* the ledger after sync_positions_from_gateio read the listing real at
\* time t
synced_positions(real, t) ==
    [s \in Symbols |->
        IF real[s] # NoReal
        THEN [side |-> real[s].side, size |-> real[s].size,
              entry_price |-> real[s].entry_price, entry_time |-> t,
              entry_spread |-> 0,
              order_id |-> "synced", quanto |-> DefaultQuanto,
              partial_closed |-> FALSE, stop_loss_order_id |-> "none"]
        ELSE open_positions[s]]

\* GateIOTradingManager.sync_positions_from_gateio, its time.time() reading t
sync_positions_from_gateio(ok, t) ==
    LET real == get_real_positions_cached(ok)
    IN  /\ position_cache' = real
        /\ open_positions' = synced_positions(real, t)
        /\ last_call' = IF ok THEN "ok" ELSE "failed"

\* GateIOSpreadBot.start: sync the ledger from the exchange, then subscribe
start(ok) ==
    /\ ~started
    /\ started' = TRUE
    /\ IF trading_manager
       THEN sync_positions_from_gateio(ok, now)
       ELSE UNCHANGED <<position_cache, open_positions, last_call>>
    /\ gateio_client' = subscribe_tickers(gateio_client)
    /\ UNCHANGED <<position_lock, trading_enabled, trading_manager, last_alert,
                   th, remote, now, open_orders, partial_orders,
                   trades, open_failed, max_positions, telegram, stats>>

\* sync_positions_from_gateio called on a running manager; dt seconds pass
\* before it reads the clock
reconcile(ok, dt) ==
    /\ started
    /\ trading_manager
    /\ now + dt <= MaxNow
    /\ now' = now + dt
    /\ sync_positions_from_gateio(ok, now')
    /\ UNCHANGED <<position_lock, trading_enabled, trading_manager, last_alert,
                   started, th, remote, open_orders, partial_orders,
                   trades, open_failed,
                   gateio_client, max_positions, telegram, stats>>

(* ------------------------------------------------------------------ *)
(* on_ticker_update: detection and open_position                       *)
(* ------------------------------------------------------------------ *)
\* check_exit_conditions from "FULL EXIT" on, entered by a thread with locals
\* loc: the full-exit rule, and close_position up to its listing call
full_exit(loc, ledger) ==
    LET seen == [loc EXCEPT !.full_exit_evaluated = TRUE]
    IN  IF loc.current_spread <= Pct(exit_spread_threshold)
        THEN IF ledger[loc.symbol] = NoPos
             THEN [seen EXCEPT !.close_called = TRUE, !.pc = "tick_done"]
             ELSE [seen EXCEPT !.close_called = TRUE, !.pc = "close_list"]
        ELSE [seen EXCEPT !.pc = "tick_done"]

\* on_ticker_update with the sanity check on the last price only
on_ticker_update_last_only(t, symbol, mark_price, last_price) ==
    /\ started
    /\ Len(trades) < MaxTrades
    /\ th[t].pc = "idle"
    /\ LET loc == [IdleLoc EXCEPT !.symbol = symbol, !.mark_price = mark_price,
                                  !.last_price = last_price]
           opportunity == detect_spread(last_alert, now, symbol, mark_price, last_price)
           wide == /\ mark_price > 0
                   /\ \/ mark_price > last_price
                         /\ SpreadBp(mark_price, last_price) >= Pct(min_threshold)
                      \/ mark_price < last_price
                         /\ SpreadBp(last_price, mark_price) >= Pct(min_threshold)
       IN  IF symbol_whitelist # {} /\ symbol \notin symbol_whitelist
           THEN /\ th' = [th EXCEPT ![t] = [loc EXCEPT !.pc = "tick_done"]]
                /\ UNCHANGED <<last_alert, open_failed,
                   gateio_client, max_positions, telegram, stats>>
           ELSE IF last_price <= 0
           THEN /\ th' = [th EXCEPT ![t] = [loc EXCEPT !.pc = "tick_done"]]
                /\ UNCHANGED <<last_alert, open_failed,
                   gateio_client, max_positions, telegram, stats>>
           ELSE /\ open_failed' = IF wide
                                  THEN [open_failed EXCEPT ![symbol] = FALSE]
                                  ELSE open_failed
                /\ last_alert' = IF opportunity.signal_type # "none"
                                 THEN [last_alert EXCEPT ![symbol] = now]
                                 ELSE last_alert
                /\ th' = [th EXCEPT ![t] =
                            [loc EXCEPT !.signal_type = opportunity.signal_type,
                                        !.spread_percent = opportunity.spread_percent,
                                        !.pc = IF /\ opportunity.signal_type # "none"
                                                  /\ trading_enabled
                                                  /\ trading_manager
                                               THEN "open_lock" ELSE "exit_gate"]]
    /\ last_call' = "none"
    /\ UNCHANGED <<open_positions, position_cache, position_lock, trading_enabled,
                   trading_manager, started, remote, now, open_orders, partial_orders,
                   trades,
                   gateio_client, max_positions, telegram, stats>>

\* the callback is entered with a ticker; whitelist, price check, detect_spread
on_ticker_update(t, symbol, mark_price, last_price) ==
    /\ started
    /\ Len(trades) < MaxTrades
    /\ th[t].pc = "idle"
    /\ LET loc == [IdleLoc EXCEPT !.symbol = symbol, !.mark_price = mark_price,
                                  !.last_price = last_price]
           opportunity == detect_spread(last_alert, now, symbol, mark_price, last_price)
           wide == \/ mark_price > last_price
                      /\ SpreadBp(mark_price, last_price) >= Pct(min_threshold)
                   \/ mark_price < last_price
                      /\ SpreadBp(last_price, mark_price) >= Pct(min_threshold)
       IN  IF symbol_whitelist # {} /\ symbol \notin symbol_whitelist
           THEN /\ th' = [th EXCEPT ![t] = [loc EXCEPT !.pc = "tick_done"]]
                /\ UNCHANGED <<last_alert, open_failed,
                   gateio_client, max_positions, telegram, stats>>
           ELSE IF mark_price <= 0 \/ last_price <= 0
           THEN /\ th' = [th EXCEPT ![t] = [loc EXCEPT !.pc = "tick_done"]]
                /\ UNCHANGED <<last_alert, open_failed,
                   gateio_client, max_positions, telegram, stats>>
           ELSE /\ open_failed' = IF wide
                                  THEN [open_failed EXCEPT ![symbol] = FALSE]
                                  ELSE open_failed
                /\ last_alert' = IF opportunity.signal_type # "none"
                                 THEN [last_alert EXCEPT ![symbol] = now]
                                 ELSE last_alert
                /\ th' = [th EXCEPT ![t] =
                            [loc EXCEPT !.signal_type = opportunity.signal_type,
                                        !.spread_percent = opportunity.spread_percent,
                                        !.pc = IF /\ opportunity.signal_type # "none"
                                                  /\ trading_enabled
                                                  /\ trading_manager
                                               THEN "open_lock" ELSE "exit_gate"]]
    /\ last_call' = "none"
    /\ UNCHANGED <<open_positions, position_cache, position_lock, trading_enabled,
                   trading_manager, started, remote, now, open_orders, partial_orders,
                   trades,
                   gateio_client, max_positions, telegram, stats>>

\* open_position: take the lock, can_open_position
open_position_enter(t) ==
    /\ th[t].pc = "open_lock"
    /\ position_lock = 0
    /\ IF can_open_position
       THEN /\ position_lock' = t
            /\ th' = [th EXCEPT ![t].pc = "open_list"]
            /\ UNCHANGED open_failed
       ELSE /\ position_lock' = 0
            /\ th' = [th EXCEPT ![t].pc = "exit_gate"]
            /\ open_failed' = [open_failed EXCEPT ![th[t].symbol] = TRUE]
    /\ last_call' = "none"
    /\ UNCHANGED <<open_positions, position_cache, trading_enabled, trading_manager,
                   last_alert, started, remote, now, open_orders, partial_orders,
                   trades,
                   gateio_client, max_positions, telegram, stats>>

\* open_position: the forced listing, the BLOCKED check, the order size
open_position_list(t, ok, cinfo) ==
    /\ th[t].pc = "open_list"
    /\ LET real == get_real_positions_cached(ok)
           size == calculate_position_size(th[t].last_price, cinfo)
           signed == IF th[t].signal_type = "SHORT" THEN -Abs(size) ELSE Abs(size)
       IN  /\ position_cache' = real
           /\ IF real[th[t].symbol] # NoReal \/ size = 0
              THEN /\ position_lock' = 0
                   /\ th' = [th EXCEPT ![t].pc = "exit_gate", ![t].fresh = ok]
                   /\ open_failed' = [open_failed EXCEPT ![th[t].symbol] = TRUE]
              ELSE /\ UNCHANGED open_failed
                   /\ position_lock' = position_lock
                   /\ th' = [th EXCEPT ![t].pc = "open_order", ![t].fresh = ok,
                                       ![t].size = signed]
    /\ last_call' = IF ok THEN "ok" ELSE "failed"
    /\ UNCHANGED <<open_positions, trading_enabled, trading_manager, last_alert,
                   started, remote, now, open_orders, partial_orders,
                   trades,
                   gateio_client, max_positions, telegram, stats>>

\* open_position: create_futures_order answered (accepted) or raised
open_position_order(t, accepted) ==
    /\ th[t].pc = "open_order"
    /\ LET s == th[t].symbol
       IN  IF accepted
           THEN /\ Abs(remote[s].size + th[t].size) <= MaxRemoteSize
                /\ remote' = [remote EXCEPT ![s] = FillOpen(@, th[t].size, th[t].last_price)]
                /\ open_orders' = Lifetime(open_orders, s, remote'[s], 1)
                /\ partial_orders' = Lifetime(partial_orders, s, remote'[s], 0)
                /\ position_lock' = position_lock
                /\ th' = [th EXCEPT ![t].pc = "open_track"]
                /\ UNCHANGED open_failed
           ELSE /\ position_lock' = 0
                /\ th' = [th EXCEPT ![t].pc = "exit_gate"]
                /\ open_failed' = [open_failed EXCEPT ![th[t].symbol] = TRUE]
                /\ UNCHANGED <<remote, open_orders, partial_orders>>
    /\ last_call' = IF accepted THEN "ok" ELSE "failed"
    /\ UNCHANGED <<open_positions, position_cache, trading_enabled, trading_manager,
                   last_alert, started, now, trades,
                   gateio_client, max_positions, telegram, stats>>

\* open_position: get_futures_contract for the quanto, then the ledger entry;
\* cinfo "error" is the call raising, which the outer handler turns into False
open_position_track(t, cinfo) ==
    /\ th[t].pc = "open_track"
    /\ LET s == th[t].symbol
       IN  IF cinfo = "error"
           THEN /\ th' = [th EXCEPT ![t].pc = "exit_gate"]
                /\ open_failed' = [open_failed EXCEPT ![th[t].symbol] = TRUE]
                /\ UNCHANGED open_positions
           ELSE /\ open_positions' = [open_positions EXCEPT ![s] =
                     [side |-> IF th[t].signal_type = "LONG" THEN "long" ELSE "short",
                      size |-> Abs(th[t].size),
                      entry_price |-> th[t].last_price,
                      entry_time |-> now,
                      entry_spread |-> th[t].spread_percent,
                      order_id |-> "order",
                      quanto |-> IF cinfo = "ok"
                                 THEN [num |-> Contract.quanto_num,
                                       den |-> Contract.quanto_den]
                                 ELSE DefaultQuanto,
                      partial_closed |-> FALSE,
                      stop_loss_order_id |-> "none"]]
                /\ th' = Locals(t, [th[t] EXCEPT !.pc = "exit_gate",
                                                 !.opened = TRUE], s)
                /\ UNCHANGED open_failed
    /\ position_lock' = 0
    /\ last_call' = "none"
    /\ UNCHANGED <<position_cache, trading_enabled, trading_manager, last_alert,
                   started, remote, now, open_orders, partial_orders,
                   trades,
                   gateio_client, max_positions, telegram, stats>>

(* ------------------------------------------------------------------ *)
(* on_ticker_update: the exit check                                    *)
(* ------------------------------------------------------------------ *)
\* the second "if self.trading_enabled and self.trading_manager", the spread
\* in the entry's direction, check_exit_conditions up to its first gateway call
exit_check(t) ==
    /\ th[t].pc = "exit_gate"
    /\ LET s == th[t].symbol
           position == open_positions[s]
           seen == [th[t] EXCEPT !.tracked = has_position(s),
                                 !.enabled = trading_enabled,
                                 !.reversed = reversed(position, th[t].mark_price,
                                                       th[t].last_price)]
           loc == [seen EXCEPT !.exit_checked = TRUE,
                               !.stale = FALSE,
                               !.current_spread =
                                   current_spread(position, th[t].mark_price,
                                                  th[t].last_price)]
       IN  IF trading_enabled /\ trading_manager /\ has_position(s)
           THEN IF take_profit_due(position, th[t].last_price)
                THEN th' = [th EXCEPT ![t] = [loc EXCEPT !.pc = "partial_list"]]
                ELSE th' = [th EXCEPT ![t] = full_exit(loc, open_positions)]
           ELSE th' = [th EXCEPT ![t] = [seen EXCEPT !.pc = "tick_done"]]
    /\ last_call' = "none"
    /\ UNCHANGED <<open_positions, position_cache, position_lock, trading_enabled,
                   trading_manager, last_alert, started, remote, now,
                   open_orders, partial_orders,
                   trades, open_failed,
                   gateio_client, max_positions, telegram, stats>>

\* close_partial_position: the forced listing, the partial size
close_partial_position_list(t, ok) ==
    /\ th[t].pc = "partial_list"
    /\ LET s == th[t].symbol
           real == get_real_positions_cached(ok)
           part == partial_size(real[s].size, 50)
       IN  /\ position_cache' = real
           /\ IF real[s] = NoReal \/ open_positions[s] = NoPos \/ part = 0
              THEN th' = [th EXCEPT ![t] = full_exit(th[t], open_positions)]
              ELSE th' = [th EXCEPT ![t] =
                            [th[t] EXCEPT !.pc = "partial_order",
                                          !.stale2 = FALSE,
                                          !.position = open_positions[s],
                                          !.total_size = real[s].size,
                                          !.size = IF open_positions[s].side = "long"
                                                   THEN -part ELSE part]]
    /\ last_call' = IF ok THEN "ok" ELSE "failed"
    /\ UNCHANGED <<open_positions, position_lock, trading_enabled, trading_manager,
                   last_alert, started, remote, now, open_orders, partial_orders,
                   trades, open_failed,
                   gateio_client, max_positions, telegram, stats>>

\* close_partial_position: the reduce-only order answered or raised
close_partial_position_order(t, accepted) ==
    /\ th[t].pc = "partial_order"
    /\ LET s == th[t].symbol
       IN  IF accepted
           THEN /\ remote' = [remote EXCEPT ![s] = FillReduce(@, th[t].size)]
                /\ open_orders' = Lifetime(open_orders, s, remote'[s], 0)
                /\ partial_orders' = Lifetime(partial_orders, s, remote'[s], 1)
                /\ th' = [th EXCEPT ![t].pc = "partial_pnl"]
           ELSE /\ th' = [th EXCEPT ![t] = full_exit(th[t], open_positions)]
                /\ UNCHANGED <<remote, open_orders, partial_orders>>
    /\ last_call' = IF accepted THEN "ok" ELSE "failed"
    /\ UNCHANGED <<open_positions, position_cache, position_lock, trading_enabled,
                   trading_manager, last_alert, started, now, trades, open_failed,
                   gateio_client, max_positions, telegram, stats>>

\* close_partial_position after the order: the tracked size; then, back in
\* check_exit_conditions, partial_closed, and set_stop_loss_at_entry up to its
\* listing.  Each write goes to the object the code holds, which is the
\* ledger's entry unless the entry was replaced since (stale).
close_partial_position_record(t) ==
    /\ th[t].pc = "partial_pnl"
    /\ LET s == th[t].symbol
           sized == IF th[t].stale2 \/ open_positions[s] = NoPos
                    THEN open_positions[s]
                    ELSE [open_positions[s] EXCEPT
                             !.size = th[t].total_size - Abs(th[t].size)]
           flagged == IF th[t].stale \/ open_positions[s] = NoPos
                      THEN sized
                      ELSE [sized EXCEPT !.partial_closed = TRUE]
       IN  /\ trades' = Append(trades, log_trade(s, th[t].position, th[t].size,
                                                 "t-partial"))
           /\ open_positions' = [open_positions EXCEPT ![s] = flagged]
           /\ th' = [th EXCEPT ![t].returned = "partial",
                               ![t].pc = IF open_positions[s] = NoPos
                                         THEN "tick_done" ELSE "stop_list"]
    /\ last_call' = "none"
    /\ UNCHANGED <<position_cache, position_lock, trading_enabled, trading_manager,
                   last_alert, started, remote, now, open_orders, partial_orders,
                   open_failed,
                   gateio_client, max_positions, telegram, stats>>

\* set_stop_loss_at_entry undoing the take-profit mark when arming fails
set_stop_loss_at_entry_rollback(t, ok) ==
    /\ th[t].pc = "stop_list"
    /\ position_cache' = get_real_positions_cached(ok)
    /\ open_positions' = [open_positions EXCEPT ![th[t].symbol].partial_closed = FALSE]
    /\ th' = [th EXCEPT ![t].pc = "tick_done"]
    /\ last_call' = IF ok THEN "ok" ELSE "failed"
    /\ UNCHANGED <<position_lock, trading_enabled, trading_manager,
                   last_alert, started, remote, now, open_orders, partial_orders,
                   trades, open_failed,
                   gateio_client, max_positions, telegram, stats>>

\* set_stop_loss_at_entry: the forced listing; then either "no real position"
\* or the trigger order's construction, which raises (FuturePriceTrigger is
\* not a name of the module): no trigger order is ever placed
set_stop_loss_at_entry(t, ok) ==
    /\ th[t].pc = "stop_list"
    /\ position_cache' = get_real_positions_cached(ok)
    /\ th' = [th EXCEPT ![t].pc = "tick_done"]
    /\ last_call' = IF ok THEN "ok" ELSE "failed"
    /\ UNCHANGED <<open_positions, position_lock, trading_enabled, trading_manager,
                   last_alert, started, remote, now, open_orders, partial_orders,
                   trades, open_failed,
                   gateio_client, max_positions, telegram, stats>>

\* close_position returning None for a symbol the listing lacks, with the
\* position left in the ledger
close_position_list_keep(t, ok) ==
    /\ th[t].pc = "close_list"
    /\ LET s == th[t].symbol
           real == get_real_positions_cached(ok)
       IN  /\ position_cache' = real
           /\ IF open_positions[s] = NoPos
              THEN /\ th' = [th EXCEPT ![t].pc = "tick_done"]
                   /\ UNCHANGED open_positions
              ELSE IF real[s] = NoReal
              THEN /\ th' = [th EXCEPT ![t].pc = "tick_done"]
                   /\ UNCHANGED open_positions
              ELSE /\ th' = [th EXCEPT ![t].pc = "close_order",
                                       ![t].position = open_positions[s],
                                       ![t].size = IF open_positions[s].side = "long"
                                                   THEN -real[s].size
                                                   ELSE real[s].size]
                   /\ UNCHANGED open_positions
    /\ last_call' = IF ok THEN "ok" ELSE "failed"
    /\ UNCHANGED <<position_lock, trading_enabled, trading_manager, last_alert,
                   started, remote, now, open_orders, partial_orders,
                   trades, open_failed,
                   gateio_client, max_positions, telegram, stats>>

\* close_position: the forced listing; a symbol missing from it is dropped
close_position_list(t, ok) ==
    /\ th[t].pc = "close_list"
    /\ LET s == th[t].symbol
           real == get_real_positions_cached(ok)
       IN  /\ position_cache' = real
           /\ IF open_positions[s] = NoPos
              THEN /\ th' = [th EXCEPT ![t].pc = "tick_done"]
                   /\ UNCHANGED open_positions
              ELSE IF real[s] = NoReal
              THEN /\ open_positions' = [open_positions EXCEPT ![s] = NoPos]
                   /\ th' = Locals(t, [th[t] EXCEPT !.pc = "tick_done"], s)
              ELSE /\ th' = [th EXCEPT ![t].pc = "close_order",
                                       ![t].position = open_positions[s],
                                       ![t].size = IF open_positions[s].side = "long"
                                                   THEN -real[s].size
                                                   ELSE real[s].size]
                   /\ UNCHANGED open_positions
    /\ last_call' = IF ok THEN "ok" ELSE "failed"
    /\ UNCHANGED <<position_lock, trading_enabled, trading_manager, last_alert,
                   started, remote, now, open_orders, partial_orders,
                   trades, open_failed,
                   gateio_client, max_positions, telegram, stats>>

\* close_position: the reduce-only order answered or raised
close_position_order(t, accepted) ==
    /\ th[t].pc = "close_order"
    /\ LET s == th[t].symbol
       IN  IF accepted
           THEN /\ remote' = [remote EXCEPT ![s] = FillReduce(@, th[t].size)]
                /\ open_orders' = Lifetime(open_orders, s, remote'[s], 0)
                /\ partial_orders' = Lifetime(partial_orders, s, remote'[s], 0)
                /\ th' = [th EXCEPT ![t].pc = "close_pnl"]
           ELSE /\ th' = [th EXCEPT ![t].pc = "tick_done"]
                /\ UNCHANGED <<remote, open_orders, partial_orders>>
    /\ last_call' = IF accepted THEN "ok" ELSE "failed"
    /\ UNCHANGED <<open_positions, position_cache, position_lock, trading_enabled,
                   trading_manager, last_alert, started, now, trades, open_failed,
                   gateio_client, max_positions, telegram, stats>>

\* close_position after the order, with the trade log rewritten to hold only
\* the latest trade
close_position_record_latest_only(t) ==
    /\ th[t].pc = "close_pnl"
    /\ LET s == th[t].symbol
       IN  /\ trades' = <<log_trade(s, th[t].position,
                                    th[t].position.size, "t-close")>>
           /\ open_positions' = [open_positions EXCEPT ![s] = NoPos]
           /\ th' = Locals(t, [th[t] EXCEPT !.pc = "tick_done",
                                            !.returned =
                                                IF open_positions[s] = NoPos
                                                THEN "none" ELSE "full"], s)
    /\ last_call' = "none"
    /\ UNCHANGED <<position_cache, position_lock, trading_enabled, trading_manager,
                   last_alert, started, remote, now, open_orders, partial_orders,
                   open_failed,
                   gateio_client, max_positions, telegram, stats>>

\* close_position after the order: log_trade, del self.open_positions[symbol]
\* (which raises, and None is returned, when the entry is gone already)
close_position_record(t) ==
    /\ th[t].pc = "close_pnl"
    /\ LET s == th[t].symbol
       IN  /\ trades' = Append(trades, log_trade(s, th[t].position,
                                                 th[t].position.size, "t-close"))
           /\ open_positions' = [open_positions EXCEPT ![s] = NoPos]
           /\ th' = Locals(t, [th[t] EXCEPT !.pc = "tick_done",
                                            !.returned =
                                                IF open_positions[s] = NoPos
                                                THEN "none" ELSE "full"], s)
    /\ last_call' = "none"
    /\ UNCHANGED <<position_cache, position_lock, trading_enabled, trading_manager,
                   last_alert, started, remote, now, open_orders, partial_orders,
                   open_failed,
                   gateio_client, max_positions, telegram, stats>>

\* on_ticker_update returns
tick_done(t) ==
    /\ th[t].pc = "tick_done"
    /\ th' = [th EXCEPT ![t] = IdleLoc]
    /\ last_call' = "none"
    /\ UNCHANGED <<open_positions, position_cache, position_lock, trading_enabled,
                   trading_manager, last_alert, started, remote, now,
                   open_orders, partial_orders,
                   trades, open_failed,
                   gateio_client, max_positions, telegram, stats>>

\* the except clause with the callback's thread ended by the exception
on_ticker_update_except_fatal(t) ==
    /\ th[t].pc \in {"open_lock", "exit_gate", "tick_done"}
    /\ stats.errors < MaxErrors
    /\ stats' = [stats EXCEPT !.errors = @ + 1]
    /\ th' = [th EXCEPT ![t].pc = "ended"]
    /\ last_call' = "none"
    /\ UNCHANGED <<open_positions, position_cache, position_lock, trading_enabled,
                   trading_manager, last_alert, started, remote, now,
                   open_orders, partial_orders, trades, open_failed,
                   gateio_client, max_positions, telegram>>

\* on_ticker_update: a statement of the callback's own body raises (a print
\* or the building of a notification, before open_position, after it, or
\* after check_exit_conditions); "except Exception" logs it, counts it in
\* stats['errors'] and the callback returns
on_ticker_update_except(t) ==
    /\ th[t].pc \in {"open_lock", "exit_gate", "tick_done"}
    /\ stats.errors < MaxErrors
    /\ stats' = [stats EXCEPT !.errors = @ + 1]
    /\ th' = [th EXCEPT ![t] = IdleLoc]
    /\ last_call' = "none"
    /\ UNCHANGED <<open_positions, position_cache, position_lock, trading_enabled,
                   trading_manager, last_alert, started, remote, now,
                   open_orders, partial_orders, trades, open_failed,
                   gateio_client, max_positions, telegram>>

(* ------------------------------------------------------------------ *)
(* Environment                                                         *)
(* ------------------------------------------------------------------ *)
\* TelegramCommandHandler._cmd_stop, from the allowed user
_cmd_stop ==
    /\ started
    /\ trading_enabled
    /\ trading_enabled' = FALSE
    /\ last_call' = "none"
    /\ UNCHANGED <<open_positions, position_cache, position_lock, trading_manager,
                   last_alert, started, th, remote, now, open_orders, partial_orders,
                   trades, open_failed,
                   gateio_client, max_positions, telegram, stats>>

\* TelegramCommandHandler._cmd_start, from the allowed user
_cmd_start ==
    /\ started
    /\ ~trading_enabled
    /\ trading_enabled' = TRUE
    /\ last_call' = "none"
    /\ UNCHANGED <<open_positions, position_cache, position_lock, trading_manager,
                   last_alert, started, th, remote, now, open_orders, partial_orders,
                   trades, open_failed,
                   gateio_client, max_positions, telegram, stats>>

\* the exchange liquidates (or the owner closes) the position for symbol s
Liquidate(s) ==
    /\ started
    /\ remote[s].size # 0
    /\ remote' = [remote EXCEPT ![s] = Flat]
    /\ open_orders' = [open_orders EXCEPT ![s] = 0]
    /\ partial_orders' = [partial_orders EXCEPT ![s] = 0]
    /\ last_call' = "none"
    /\ UNCHANGED <<open_positions, position_cache, position_lock, trading_enabled,
                   trading_manager, last_alert, started, th, now, trades, open_failed,
                   gateio_client, max_positions, telegram, stats>>

\* the alert cooldown elapses
AdvanceClock ==
    /\ started
    /\ now + alert_cooldown <= MaxNow
    /\ now' = now + alert_cooldown
    /\ last_call' = "none"
    /\ UNCHANGED <<open_positions, position_cache, position_lock, trading_enabled,
                   trading_manager, last_alert, started, th, remote,
                   open_orders, partial_orders,
                   trades, open_failed,
                   gateio_client, max_positions, telegram, stats>>

\* part of the alert cooldown passes
PassTime ==
    /\ started
    /\ now + ClockStep <= MaxNow
    /\ now' = now + ClockStep
    /\ last_call' = "none"
    /\ UNCHANGED <<open_positions, position_cache, position_lock, trading_enabled,
                   trading_manager, last_alert, started, th, remote,
                   open_orders, partial_orders,
                   trades, open_failed,
                   gateio_client, max_positions, telegram, stats>>

(* ------------------------------------------------------------------ *)
(* The Telegram command handler                                        *)
(* ------------------------------------------------------------------ *)
\* _execute_command(command): the value of trading_enabled it leaves and the
\* reply it sends with _send_message
_execute_command(command) ==
    IF command = "/stop"
    THEN [trading_enabled |-> FALSE, reply |-> "Trading DISABLED"]
    ELSE IF command \in {"/start_trading", "/start"}
    THEN [trading_enabled |-> TRUE, reply |-> "Trading ENABLED"]
    ELSE IF command = "/status"
    THEN [trading_enabled |-> trading_enabled,
          reply |-> IF trading_enabled THEN "Bot Status ENABLED"
                    ELSE "Bot Status DISABLED"]
    ELSE IF command = "/positions"
    THEN [trading_enabled |-> trading_enabled,
          reply |-> IF ~trading_manager THEN "Trading manager not available"
                    ELSE IF \A s \in Symbols : open_positions[s] = NoPos
                         THEN "No open positions" ELSE "Open Positions"]
    ELSE IF command = "/stats"
    THEN [trading_enabled |-> trading_enabled,
          reply |-> IF ~trading_manager THEN "Trading manager not available"
                    ELSE IF get_statistics(trades).total_trades = 0
                         THEN "No trades yet" ELSE "Trading Statistics"]
    ELSE IF command = "/help"
    THEN [trading_enabled |-> trading_enabled, reply |-> "Bot Commands"]
    ELSE [trading_enabled |-> trading_enabled, reply |-> "Unknown command"]

\* _handle_update without the test of the sender
_handle_update_any_sender(user_id, text) ==
    /\ started
    /\ telegram.last_update_id < MaxUpdates
    /\ IF text \in Commands
       THEN /\ trading_enabled' = _execute_command(text).trading_enabled
            /\ telegram' = [telegram EXCEPT
                               !.last_update_id = @ + 1,
                               !.replies = Append(@, [command |-> text,
                                    text |-> _execute_command(text).reply])]
       ELSE /\ telegram' = [telegram EXCEPT !.last_update_id = @ + 1]
            /\ UNCHANGED trading_enabled
    /\ UNCHANGED <<open_positions, position_cache, position_lock, trading_manager,
                   last_alert, started, th, remote, now, last_call, open_orders,
                   partial_orders, trades, open_failed, gateio_client,
                   max_positions, stats>>

\* _poll_updates hands one update to _handle_update and records its id: an
\* update of another sender is logged and dropped, a text starting with "/"
\* of the allowed user is executed, any other text is ignored
_handle_update(user_id, text) ==
    /\ started
    /\ telegram.last_update_id < MaxUpdates
    /\ IF user_id # allowed_user_id
       THEN /\ telegram' = [telegram EXCEPT !.last_update_id = @ + 1,
                                            !.unauthorized = @ + 1]
            /\ UNCHANGED trading_enabled
       ELSE IF text \in Commands
       THEN /\ trading_enabled' = _execute_command(text).trading_enabled
            /\ telegram' = [telegram EXCEPT
                               !.last_update_id = @ + 1,
                               !.replies = Append(@, [command |-> text,
                                    text |-> _execute_command(text).reply])]
       ELSE /\ telegram' = [telegram EXCEPT !.last_update_id = @ + 1]
            /\ UNCHANGED trading_enabled
    /\ UNCHANGED <<open_positions, position_cache, position_lock, trading_manager,
                   last_alert, started, th, remote, now, last_call, open_orders,
                   partial_orders, trades, open_failed, gateio_client,
                   max_positions, stats>>

(* ------------------------------------------------------------------ *)
(* The trade recorder and the periodic reporter                        *)
(* ------------------------------------------------------------------ *)
\* everything but the recorded trades and the Telegram side
recorder_unchanged ==
    UNCHANGED <<open_positions, position_cache, position_lock, trading_enabled,
                trading_manager, last_alert, started, th, remote, now, last_call,
                open_orders, partial_orders, open_failed, gateio_client,
                max_positions, stats>>

\* TradeAnalytics.log_trade(trade_data) with the whole record _calculate_pnl
\* builds (the trading actions keep its identifying fields only)
analytics_log_trade(trade_data) ==
    /\ trading_manager
    /\ Len(trades) < MaxLogged
    /\ trades' = Append(trades, _calculate_pnl(trade_data))
    /\ UNCHANGED telegram
    /\ recorder_unchanged

\* PeriodicReporter.send_report, from the reporter loop or send_manual_report:
\* an exception while the report is built is logged and nothing is sent
send_report ==
    /\ trading_manager
    /\ telegram.send_report_calls < MaxSent
    /\ LET report == _format_report(get_statistics(trades),
                                    get_symbol_performance(trades))
       IN  telegram' = [telegram EXCEPT
                           !.send_report_calls = @ + 1,
                           !.reports = IF report.raised THEN @ ELSE Append(@, report)]
    /\ UNCHANGED trades
    /\ recorder_unchanged

(* ------------------------------------------------------------------ *)
(* The WebSocket client: connection, reconnection, stop                *)
(* ------------------------------------------------------------------ *)
\* everything but the client
bot_vars == <<open_positions, position_cache, position_lock, trading_enabled,
              trading_manager, last_alert, started, th, remote, now, last_call,
              open_orders, partial_orders, trades, open_failed, max_positions, telegram, stats>>

\* on_open of connection c: the subscription to futures.tickers is sent
on_open(c) ==
    /\ gateio_client.conn[c] = "started"
    /\ gateio_client' = [gateio_client EXCEPT !.conn[c] = "subscribed"]
    /\ UNCHANGED bot_vars

\* the thread subscribe_tickers starts for connection c: run_forever reads
\* the connection and calls on_message and on_close on it, one after the other
ws_thread(c) == ((c - 1) % Cardinality(Threads)) + 1

\* on_message of connection c: a ticker of the update is handed to the
\* callback; self.running is not consulted
on_message(c, symbol, mark_price, last_price) ==
    /\ gateio_client.conn[c] = "subscribed"
    /\ on_ticker_update(ws_thread(c), symbol, mark_price, last_price)

\* the connection c ends (network, server): run_forever calls on_close
connection_lost(c) ==
    /\ gateio_client.conn[c] \in {"started", "subscribed"}
    /\ gateio_client' = [gateio_client EXCEPT !.conn[c] = "closed",
                                              !.on_close[c] = "check"]
    /\ UNCHANGED bot_vars

\* on_close called while the connection's thread is still inside on_message
on_close_check_off_thread(c) ==
    /\ gateio_client.on_close[c] = "check"
    /\ gateio_client' = [gateio_client EXCEPT !.on_close[c] =
                             IF gateio_client.running THEN "sleep" ELSE "done"]
    /\ UNCHANGED bot_vars

\* on_close: "if self.running:" before the sleep; the connection's thread
\* calls it once the callback it was in has returned
on_close_check(c) ==
    /\ gateio_client.on_close[c] = "check"
    /\ th[ws_thread(c)].pc = "idle"
    /\ gateio_client' = [gateio_client EXCEPT !.on_close[c] =
                             IF gateio_client.running THEN "sleep" ELSE "done"]
    /\ UNCHANGED bot_vars

\* on_close: time.sleep(5) ends, "if self.running:" again
on_close_wake(c) ==
    /\ gateio_client.on_close[c] = "sleep"
    /\ gateio_client' = [gateio_client EXCEPT !.on_close[c] =
                             IF gateio_client.running THEN "subscribe" ELSE "done"]
    /\ UNCHANGED bot_vars

\* on_close: self.subscribe_tickers(callback), its first two statements
\* (the callback is stored, self.running = True)
on_close_subscribe(c) ==
    /\ gateio_client.on_close[c] = "subscribe"
    /\ gateio_client' = [gateio_client EXCEPT !.running = TRUE,
                                              !.on_close[c] = "connect"]
    /\ UNCHANGED bot_vars

\* on_close: the rest of subscribe_tickers, the new WebSocketApp and its thread
on_close_connect(c) ==
    /\ gateio_client.on_close[c] = "connect"
    /\ \E d \in Conns : gateio_client.conn[d] = "none"
    /\ gateio_client' = WebSocketApp([gateio_client EXCEPT !.on_close[c] = "done"])
    /\ UNCHANGED bot_vars

\* GateIOSpreadBot.stop up to GateIOClient.stop's "self.running = False"
stop_running ==
    /\ started
    /\ gateio_client.stop = "none"
    /\ gateio_client' = [gateio_client EXCEPT !.running = FALSE, !.stop = "closing"]
    /\ UNCHANGED bot_vars

\* GateIOClient.stop: "if self.ws: self.ws.close()", and stop returns; closing
\* a live connection makes its run_forever call on_close
stop_close ==
    /\ gateio_client.stop = "closing"
    /\ LET c == gateio_client.ws
       IN  gateio_client' =
               IF c # 0 /\ gateio_client.conn[c] \in {"started", "subscribed"}
               THEN [gateio_client EXCEPT !.conn[c] = "closed",
                                          !.on_close[c] = "check",
                                          !.stop = "returned"]
               ELSE [gateio_client EXCEPT !.stop = "returned"]
    /\ UNCHANGED bot_vars

(* ------------------------------------------------------------------ *)
(* Specifications                                                      *)
(* ------------------------------------------------------------------ *)
ContractInfo == {"ok", "noquanto", "error"}

Step(t) ==
    \/ open_position_enter(t)
    \/ \E ok \in BOOLEAN, cinfo \in ContractInfo : open_position_list(t, ok, cinfo)
    \/ \E accepted \in BOOLEAN : open_position_order(t, accepted)
    \/ \E cinfo \in ContractInfo : open_position_track(t, cinfo)
    \/ exit_check(t)
    \/ \E ok \in BOOLEAN : close_partial_position_list(t, ok)
    \/ \E accepted \in BOOLEAN : close_partial_position_order(t, accepted)
    \/ close_partial_position_record(t)
    \/ \E ok \in BOOLEAN : set_stop_loss_at_entry(t, ok)
    \/ \E ok \in BOOLEAN : close_position_list(t, ok)
    \/ \E accepted \in BOOLEAN : close_position_order(t, accepted)
    \/ close_position_record(t)
    \/ tick_done(t)

Environment ==
    \/ \E ok \in BOOLEAN : start(ok)
    \/ _cmd_stop
    \/ _cmd_start
    \/ \E s \in Symbols : Liquidate(s)
    \/ AdvanceClock

\* one callback thread handling the tickers of one symbol, one after the other
SeqInit == InitWith({"A"}, StartSizes) /\ max_positions = 1

SeqNext ==
    \/ \E p \in TickPrices : on_ticker_update(1, "A", p[1], p[2])
    \/ Step(1)
    \/ Environment

SeqSpec == SeqInit /\ [][SeqNext]_vars

\* the same, with the feed delivering tickers for as long as it runs and
\* the callback thread running every call to its end
FairSeqSpec ==
    /\ SeqSpec
    /\ WF_vars(\E p \in TickPrices : on_ticker_update(1, "A", p[1], p[2]))
    /\ WF_vars(Step(1))

\* the detector: a monitoring-only bot (trading.enabled false in the
\* configuration), tickers of all symbols, the clock moving within the cooldown
DetectInit == InitWith({}, {}) /\ ~trading_enabled /\ max_positions = 1

DetectNext ==
    \/ \E ok \in BOOLEAN : start(ok)
    \/ \E s \in Symbols, p \in DetectPrices : on_ticker_update(1, s, p[1], p[2])
    \/ exit_check(1)
    \/ tick_done(1)
    \/ PassTime

DetectSpec == DetectInit /\ [][DetectNext]_vars

\* sync_positions_from_gateio as an operation of a manager that already
\* tracks positions: the ledger holds at most max_positions positions the bot
\* opened, the account holds anything, the cache is empty or current
OpenedPositions ==
    { [side |-> sd, size |-> 4, entry_price |-> 100, entry_time |-> 0,
       entry_spread |-> 1000, order_id |-> "order",
       quanto |-> [num |-> Contract.quanto_num, den |-> Contract.quanto_den],
       partial_closed |-> pc, stop_loss_order_id |-> "none"]
      : sd \in {"long", "short"}, pc \in BOOLEAN }

SyncInit ==
    /\ max_positions = 1
    /\ open_positions \in [Symbols -> OpenedPositions \cup {NoPos}]
    /\ Cardinality({s \in Symbols : open_positions[s] # NoPos}) <= max_positions
    /\ remote \in [Symbols -> {[size |-> z, entry_price |-> IF z = 0 THEN 0 ELSE 100]
                                 : z \in StartSizes}]
    /\ position_cache \in {[s \in Symbols |-> NoReal],
                            [s \in Symbols |-> RealOf(remote[s])]}
    /\ position_lock = 0
    /\ trading_enabled = TRUE
    /\ trading_manager = TRUE
    /\ last_alert = [s \in Symbols |-> NoAlert]
    /\ started = TRUE
    /\ th = [t \in Threads |-> IdleLoc]
    /\ now = 0
    /\ last_call = "none"
    /\ open_orders = [s \in Symbols |-> IF remote[s].size = 0 THEN 0 ELSE 1]
    /\ partial_orders = [s \in Symbols |-> 0]
    /\ trades = <<>>
    /\ open_failed = [s \in Symbols |-> FALSE]
    /\ gateio_client = subscribe_tickers(GateIOClient)
    /\ telegram = TelegramIdle
    /\ stats = [errors |-> 0]

SyncNext ==
    \/ \E ok \in BOOLEAN, dt \in {0, ClockStep} : reconcile(ok, dt)
    \/ \E s \in Symbols : Liquidate(s)

SyncSpec == SyncInit /\ [][SyncNext]_vars

\* callers on several threads, several symbols: opens and full closes
ConcStep(t) ==
    \/ open_position_enter(t)
    \/ \E ok \in BOOLEAN : open_position_list(t, ok, "ok")
    \/ \E accepted \in BOOLEAN : open_position_order(t, accepted)
    \/ \E cinfo \in {"ok", "error"} : open_position_track(t, cinfo)
    \/ exit_check(t)
    \/ \E ok \in BOOLEAN : close_position_list(t, ok)
    \/ \E accepted \in BOOLEAN : close_position_order(t, accepted)
    \/ close_position_record(t)
    \/ tick_done(t)

Next ==
    \/ \E t \in Threads, s \in Symbols, p \in ConcPrices :
          /\ Len(trades) < ConcMaxTrades
          /\ on_ticker_update(t, s, p[1], p[2])
    \/ \E t \in Threads : ConcStep(t)
    \/ \E ok \in BOOLEAN : start(ok)
    \/ AdvanceClock

Spec == Init /\ [][Next]_vars

\* The client of a monitoring-only bot: connections come and go, tickers are
\* dispatched to on_ticker_update, and stop is called once.
ClientInit == InitWith({}, {}) /\ ~trading_enabled /\ max_positions = 1

ClientNext ==
    \/ \E ok \in BOOLEAN : start(ok)
    \/ \E c \in Conns : on_open(c)
    \/ \E c \in Conns, p \in ConcPrices : on_message(c, "A", p[1], p[2])
    \/ \E t \in Threads : exit_check(t)
    \/ \E t \in Threads : tick_done(t)
    \/ \E c \in Conns : connection_lost(c)
    \/ \E c \in Conns : on_close_check(c)
    \/ \E c \in Conns : on_close_wake(c)
    \/ \E c \in Conns : on_close_subscribe(c)
    \/ \E c \in Conns : on_close_connect(c)
    \/ stop_running
    \/ stop_close

ClientSpec == ClientInit /\ [][ClientNext]_vars

\* The sequential bot configured with room for two positions.
CapTwoInit == InitWith({"A"}, StartSizes) /\ max_positions = 2

CapTwoSpec == CapTwoInit /\ [][SeqNext]_vars

\* Sizing: one thread opens (and closes) positions on tickers whose last
\* price makes the contract count whole, fractional, or less than one.
SizeInit == InitWith({}, {}) /\ trading_enabled /\ max_positions = 1

SizeNext ==
    \/ \E ok \in BOOLEAN : start(ok)
    \/ \E p \in SizePrices : on_ticker_update(1, "A", p[1], p[2])
    \/ Step(1)

SizeSpec == SizeInit /\ [][SizeNext]_vars

\* Exits: one thread, trading enabled throughout; the account starts with
\* nothing or with a position the startup sync adopts, and a position may be
\* liquidated on the exchange at any time.
ExitInit == InitWith({"A"}, ExitSizes) /\ trading_enabled /\ max_positions = 1

ExitNext ==
    \/ \E ok \in BOOLEAN : start(ok)
    \/ \E p \in ExitPrices : on_ticker_update(1, "A", p[1], p[2])
    \/ Step(1)
    \/ Liquidate("A")

ExitSpec == ExitInit /\ [][ExitNext]_vars

\* The recorder and the reporter: trades are logged and reports are sent in
\* any order.
AnalyticsInit == InitWith({}, {}) /\ trading_enabled /\ max_positions = 1

AnalyticsNext ==
    \/ \E trade_data \in TradeInputs : analytics_log_trade(trade_data)
    \/ send_report

AnalyticsSpec == AnalyticsInit /\ [][AnalyticsNext]_vars

\* Exits with failing statements: as ExitSpec, and a statement of the
\* callback's own body may raise.
ErrorNext ==
    \/ ExitNext
    \/ on_ticker_update_except(1)

ErrorSpec == ExitInit /\ [][ErrorNext]_vars

\* The command handler: updates of the allowed user and of another sender
\* arrive once the bot has started.
TelegramInit == InitWith({"A"}, {4}) /\ max_positions = 1

TelegramNext ==
    \/ \E ok \in BOOLEAN : start(ok)
    \/ \E user_id \in Senders, text \in Texts : _handle_update(user_id, text)

TelegramSpec == TelegramInit /\ [][TelegramNext]_vars

(* ------------------------------------------------------------------ *)
(* Claims                                                              *)
(* ------------------------------------------------------------------ *)
Tracked == {s \in Symbols : open_positions[s] # NoPos}

\* the steps of open_position, close_position, close_partial_position and
\* set_stop_loss_at_entry, each of which reads or writes the ledger
MutatingPcs == {"open_list", "open_order", "open_track",
                "partial_list", "partial_order", "partial_pnl", "stop_list",
                "close_list", "close_order", "close_pnl"}

\* C1: the account never holds a position for a symbol into which more than
\* one opening order was filled: once a position for the symbol exists, no
\* further open order for it is accepted, under any interleaving of opens.
C1_OneOpenOrderPerPosition ==
    \A s \in Symbols : open_orders[s] <= 1

\* C2: in every reachable state the number of tracked positions is at most
\* max_positions.
C2_AtMostMaxPositions ==
    Cardinality(Tracked) <= max_positions

\* C3: a thread inside an operation that mutates the ledger holds the
\* ledger lock, so two such operations never overlap.
C3_MutatorsHoldLock ==
    \A t \in Threads : th[t].pc \in MutatingPcs => position_lock = t

\* C4: open_position submits its order only when the listing it fetched in
\* this very call answered (and did not contain the symbol); never on the
\* cached listing.
C4_OrderOnlyOnFreshListing ==
    \A t \in Threads : th[t].pc = "open_order" => th[t].fresh

\* C5: a step in which the listing raises or the order is rejected leaves
\* the ledger as it was.
C5_FailedCallKeepsLedger ==
    [][last_call' = "failed" => open_positions' = open_positions]_vars

\* C6: a ticker for a symbol with a tracked position, handled while the
\* trading-enabled flag is false, still runs the exit check.
C6_ExitCheckWhileDisabled ==
    \A t \in Threads :
        (th[t].pc = "tick_done" /\ th[t].tracked /\ ~th[t].enabled)
            => th[t].exit_checked

\* C7: an emitted opportunity leads to an open attempt if and only if the
\* trading-enabled flag is true when its ticker is handled.
C7_OpenAttemptIffEnabled ==
    [][\A t \in Threads :
          (th[t].pc = "idle" /\ th'[t].pc # "idle" /\ th'[t].signal_type # "none")
              => (th'[t].pc = "open_lock" <=> trading_enabled)]_vars

\* C8: every ticker handled for a symbol with a tracked position evaluates
\* the full-exit rule, and calls close_position when the effective spread is
\* at or below exit_spread_threshold.
C8_FullExitEveryTick ==
    \A t \in Threads :
        (th[t].pc = "tick_done" /\ th[t].tracked)
            => /\ th[t].full_exit_evaluated
               /\ th[t].current_spread <= Pct(exit_spread_threshold)
                      => th[t].close_called

\* C9: a ticker on which the tracked position's price relationship has
\* reversed gives the effective spread 0 and calls close_position.
C9_ReversalClosesOnTick ==
    \A t \in Threads :
        (th[t].pc = "tick_done" /\ th[t].tracked /\ th[t].reversed)
            => (th[t].current_spread = 0 /\ th[t].close_called)

C11_PartialKeptWhenStopFails ==
    /\ [](\A t \in Threads :
            th[t].pc = "stop_list"
                => LET s == th[t].symbol
                   IN  /\ open_positions[s] # NoPos
                       /\ open_positions[s].partial_closed
                       /\ open_positions[s].size = th[t].total_size - Abs(th[t].size)
                       /\ Len(trades) > 0
                       /\ trades[Len(trades)] =
                              log_trade(s, th[t].position, th[t].size, "t-partial"))
    /\ [][\A t \in Threads :
            (th[t].pc = "stop_list" /\ th'[t].pc # "stop_list")
                => /\ open_positions' = open_positions
                   /\ trades' = trades
                   /\ th'[t].pc = "tick_done"
                   /\ th'[t].returned = "partial"]_vars

\* C11 witness: a tick ended after the partial close was filled and the
\* listing inside set_stop_loss_at_entry raised.
C11_Witness ==
    /\ th[1].pc = "tick_done"
    /\ th[1].returned = "partial"
    /\ last_call = "failed"
    /\ open_positions[th[1].symbol].partial_closed

\* C12: when create_futures_order acknowledged the opening order, the ledger
\* holds a position for the symbol with the order's side and size, the entry
\* price and the opportunity's spread when open_position returns, and
\* open_position returns True.
C12_AckedOpenIsTracked ==
    [][\A t \in Threads :
          (th[t].pc = "open_track" /\ th'[t].pc # "open_track")
              => LET position == open_positions'[th[t].symbol]
                 IN  /\ th'[t].opened
                     /\ position # NoPos
                     /\ position.side = (IF th[t].size > 0 THEN "long" ELSE "short")
                     /\ position.size = Abs(th[t].size)
                     /\ position.entry_price = th[t].last_price
                     /\ position.entry_spread = th[t].spread_percent]_vars

\* the step of close_position that builds the order
C13_CloseSubmitsFullSize ==
    \A t \in Threads :
        (th'[t].pc = "close_order" /\ th[t].pc = "close_list")
            => LET s == th[t].symbol
               IN  /\ Abs(th'[t].size) = Abs(remote[s].size)
                   /\ th'[t].size = (IF open_positions[s].side = "long"
                                     THEN -Abs(remote[s].size)
                                     ELSE Abs(remote[s].size))

\* the step of close_position that follows the accepted order
C13_AcceptedCloseRecorded ==
    \A t \in Threads :
        (th[t].pc = "close_pnl" /\ th'[t].pc # "close_pnl")
            => LET s == th[t].symbol
               IN  /\ open_positions'[s] = NoPos
                   /\ Len(trades') = Len(trades) + 1
                   /\ trades'[Len(trades')].symbol = s
                   /\ trades'[Len(trades')].text = "t-close"
                   /\ th'[t].returned = "full"
                   /\ th'[t].pc = "tick_done"

\* C13: close_position submits a reduce-only order whose size is the whole of
\* what the account holds for the symbol, signed against the tracked side;
\* and when the order is accepted the call ends with the position removed
\* from the ledger, one record for the close appended to the trade log, and
\* that record returned.
C13_FullClose ==
    [][C13_CloseSubmitsFullSize /\ C13_AcceptedCloseRecorded]_vars

\* the step of close_partial_position that builds the order
C14_PartialSubmitsHalf ==
    \A t \in Threads :
        (th[t].pc = "partial_list" /\ th'[t].pc = "partial_order")
            => LET s == th[t].symbol
                   part == (Abs(remote[s].size) * 50) \div 100
               IN  th'[t].size = (IF open_positions[s].side = "long"
                                 THEN -part ELSE part)

\* the step that follows the accepted partial-close order
C14_AcceptedPartialRecorded ==
    \A t \in Threads :
        (th[t].pc = "partial_pnl" /\ th'[t].pc # "partial_pnl")
            => LET s == th[t].symbol
               IN  /\ open_positions'[s] # NoPos
                   /\ open_positions'[s].size = open_positions[s].size - Abs(th[t].size)
                   /\ open_positions'[s].partial_closed

\* C14: close_partial_position submits a reduce-only order for
\* floor(remote size * 50 / 100) contracts against the tracked side; when it
\* is accepted the tracked size goes down by exactly that many contracts,
\* partial_closed is set and the position stays in the ledger.
C14_PartialClose ==
    [][C14_PartialSubmitsHalf /\ C14_AcceptedPartialRecorded]_vars

\* C15: after sync_positions_from_gateio ran with a snapshot of the account,
\* no tracked position is for a symbol the snapshot does not contain.
C15_SyncDropsAbsent ==
    [][\A ok \in BOOLEAN, dt \in {0, ClockStep} :
          reconcile(ok, dt)
              => \A s \in Symbols :
                    open_positions'[s] # NoPos => position_cache'[s] # NoReal]_vars

\* C16: sync_positions_from_gateio tracks every symbol of its snapshot that
\* was not tracked before, with the snapshot's side, size and entry price,
\* entry_spread 0 and entry_time the time of the call; and a listing that
\* answered gives as snapshot the account's non-zero positions, long for a
\* positive size and short for a negative one, with the absolute size.
C16_SyncAdoptsRemote ==
    [][\A ok \in BOOLEAN, dt \in {0, ClockStep} :
          reconcile(ok, dt)
              => \A s \in Symbols :
                    /\ (position_cache'[s] # NoReal /\ open_positions[s] = NoPos)
                          => /\ open_positions'[s] # NoPos
                             /\ open_positions'[s].side = position_cache'[s].side
                             /\ open_positions'[s].size = position_cache'[s].size
                             /\ open_positions'[s].entry_price
                                    = position_cache'[s].entry_price
                             /\ open_positions'[s].entry_spread = 0
                             /\ open_positions'[s].entry_time = now'
                    /\ ok => /\ (position_cache'[s] # NoReal) = (remote[s].size # 0)
                             /\ remote[s].size > 0
                                   => /\ position_cache'[s].side = "long"
                                      /\ position_cache'[s].size = remote[s].size
                             /\ remote[s].size < 0
                                   => /\ position_cache'[s].side = "short"
                                      /\ position_cache'[s].size = -remote[s].size
                             /\ position_cache'[s].entry_price
                                    = remote[s].entry_price]_vars

\* C16 witness: a sync whose listing answered has just adopted a short
\* position that was not tracked, some time after the start.
C16_Witness ==
    /\ last_call = "ok"
    /\ now > 0
    /\ \E s \in Symbols :
          /\ remote[s].size < 0
          /\ open_positions[s].order_id = "synced"
          /\ open_positions[s].side = "short"
          /\ open_positions[s].entry_time = now

\* C17: a second sync_positions_from_gateio right after a first one, with the
\* same snapshot, leaves every field of the ledger as the first left it.
C17_SyncIdempotent ==
    [][\A ok \in BOOLEAN, dt \in {0, ClockStep} :
          (/\ reconcile(ok, dt)
           /\ last_call \in {"ok", "failed"}
           /\ position_cache' = position_cache)
              => open_positions' = open_positions]_vars

\* the tracked size for symbol s is not what the account holds
Diverged(s) ==
    open_positions[s] # NoPos /\ open_positions[s].size # Abs(remote[s].size)

\* a ticker was handled on which the exit rules were evaluated for a
\* tracked position
ExitRulesEvaluated ==
    \E t \in Threads : th[t].pc = "tick_done" /\ th[t].full_exit_evaluated

\* C18: while the bot runs, that is while tickers keep arriving and the exit
\* rules keep being evaluated for the tracked positions, a difference between
\* a tracked position's size and the size the account holds does not last
\* forever: again and again the two agree (or the position is untracked).
C18_SizeConverges ==
    \/ <>(Len(trades) >= MaxTrades)
    \/ <>[](~ExitRulesEvaluated)
    \/ \A s \in Symbols : []<>(~Diverged(s))

\* C19: a ticker makes detect_spread emit an opportunity exactly when both
\* prices are positive, the spread in the direction of the prices is at
\* least min_threshold, and the symbol's own last emission is 60 seconds or
\* more ago (or there was none); the opportunity has that direction; an
\* emission stamps the symbol's own cooldown only, and a ticker that emits
\* nothing leaves every cooldown as it is.
C19_EmitsExactlyWhenDue ==
    [][\A t \in Threads :
          (th[t].pc = "idle" /\ th'[t].pc # "idle")
              => LET s == th'[t].symbol
                     m == th'[t].mark_price
                     l == th'[t].last_price
                     wide == \/ m > l /\ (m - l) * 100 >= min_threshold * l
                             \/ m < l /\ (l - m) * 100 >= min_threshold * m
                     cooled == last_alert[s] = NoAlert \/ now - last_alert[s] >= 60
                     due == m > 0 /\ l > 0 /\ wide /\ cooled
                 IN  /\ (th'[t].signal_type # "none") = due
                     /\ due => /\ th'[t].signal_type
                                    = (IF m > l THEN "LONG" ELSE "SHORT")
                               /\ last_alert' = [last_alert EXCEPT ![s] = now]
                     /\ ~due => last_alert' = last_alert]_vars

\* C19 witness: the ticker mark 107, last 100 has just made symbol A emit a
\* LONG opportunity at time 60, half a cooldown after symbol B emitted.
C19_Witness ==
    /\ th[1].symbol = "A"
    /\ th[1].mark_price = 107
    /\ th[1].last_price = 100
    /\ th[1].signal_type = "LONG"
    /\ th[1].pc = "exit_gate"
    /\ now = 60
    /\ last_alert["A"] = 60
    /\ last_alert["B"] = 30

\* C20: after open_position returned False for a symbol's opportunity, the
\* next ticker for that symbol whose spread is at least min_threshold, handled
\* with trading still enabled, leads to another call of open_position.
C20_FailedOpenRetriedNextTick ==
    [][\A t \in Threads :
          (th[t].pc = "idle" /\ th'[t].pc # "idle")
              => LET s == th'[t].symbol
                     m == th'[t].mark_price
                     l == th'[t].last_price
                     wide == \/ m > l /\ (m - l) * 100 >= min_threshold * l
                             \/ m < l /\ (l - m) * 100 >= min_threshold * m
                 IN  (/\ open_failed[s]
                      /\ m > 0 /\ l > 0 /\ wide
                      /\ trading_enabled /\ trading_manager)
                         => th'[t].pc = "open_lock"]_vars

\* C21: every step leaves the trade log as it was or appends exactly one
\* record to it, so every earlier log is a prefix of every later one; the
\* step that completes an accepted close order or an accepted partial close
\* order appends exactly one record, and no other step appends.
C21_TradeLogAppendOnly ==
    [][/\ Len(trades') \in {Len(trades), Len(trades) + 1}
       /\ SubSeq(trades', 1, Len(trades)) = trades
       /\ (Len(trades') = Len(trades) + 1)
              = (\E t \in Threads : th[t].pc \in {"close_pnl", "partial_pnl"}
                                    /\ th'[t].pc # th[t].pc)
       /\ \A t \in Threads :
             (th[t].pc = "close_pnl" /\ th'[t].pc # th[t].pc)
                 => trades'[Len(trades')].text = "t-close"
       /\ \A t \in Threads :
             (th[t].pc = "partial_pnl" /\ th'[t].pc # th[t].pc)
                 => trades'[Len(trades')].text = "t-partial"]_vars

\* C21 witness: the log holds the record of a partial close followed by the
\* record of the full close of the rest.
C21_Witness ==
    /\ Len(trades) = 2
    /\ trades[1].text = "t-partial"
    /\ trades[2].text = "t-close"
    /\ trades[1].symbol = trades[2].symbol

\* C22: once stop has returned, no step creates a WebSocket connection, no
\* step subscribes a connection to the tickers, and no step hands a ticker
\* to on_ticker_update.
C22_StopHaltsIngestion ==
    [][gateio_client.stop = "returned"
          => /\ \A c \in Conns :
                   gateio_client'.conn[c] \in {"started", "subscribed"}
                       => gateio_client'.conn[c] = gateio_client.conn[c]
             /\ \A t \in Threads : th[t].pc = "idle" => th'[t].pc = "idle"]_vars

\* C23: after a filled take-profit partial close, when the forced listing of
\* set_stop_loss_at_entry answers and shows the rest of the position, the
\* trigger order at the entry price is placed and the tracked position
\* records its id.
C23_StopArmedAfterPartial ==
    [][\A t \in Threads :
          LET s == th[t].symbol
          IN  (/\ th[t].pc = "stop_list"
               /\ th'[t].pc # "stop_list"
               /\ last_call' = "ok"
               /\ position_cache'[s] # NoReal)
                  => open_positions'[s].stop_loss_order_id # "none"]_vars

\* C25: sync_positions_from_gateio, for a symbol that is tracked and that its
\* snapshot contains, sets the tracked size to the snapshot's size and leaves
\* the position's entry spread, entry time, partial_closed flag and stop id
\* as they were.
C25_SyncKeepsTrackedFields ==
    [][\A ok \in BOOLEAN, dt \in {0, ClockStep} :
          reconcile(ok, dt)
              => \A s \in Symbols :
                    (open_positions[s] # NoPos /\ position_cache'[s] # NoReal)
                        => /\ open_positions'[s].size = position_cache'[s].size
                           /\ open_positions'[s].entry_spread
                                  = open_positions[s].entry_spread
                           /\ open_positions'[s].entry_time
                                  = open_positions[s].entry_time
                           /\ open_positions'[s].partial_closed
                                  = open_positions[s].partial_closed
                           /\ open_positions'[s].stop_loss_order_id
                                  = open_positions[s].stop_loss_order_id]_vars

\* C26: open_position never gets as far as submitting an order for a symbol
\* the ledger holds, whatever the listing of the account shows for it.
C26_LocalPresenceRejects ==
    \A t \in Threads :
        th[t].pc = "open_order" => open_positions[th[t].symbol] = NoPos

\* C27: when margin times leverage buys fewer contracts at the entry price
\* than the contract's order_size_min, open_position stops before the order:
\* nothing is submitted and the ledger stays as it was.
C27_SizeTooSmallRejected ==
    [][\A t \in Threads, ok \in BOOLEAN :
          (/\ open_position_list(t, ok, "ok")
           /\ position_size_usd * leverage * Contract.quanto_den
                  < Contract.order_size_min * th[t].last_price * Contract.quanto_num)
              => /\ th'[t].pc # "open_order"
                 /\ open_positions' = open_positions]_vars

\* C28: with the contract's data at hand, the size open_position is about to
\* submit is floor(margin * leverage / (price * quanto)) contracts, or
\* order_size_min if that is more, positive for a LONG opportunity and
\* negative for a SHORT one.
C28_FloorSizedSignedOrder ==
    [][\A t \in Threads, ok \in BOOLEAN :
          (open_position_list(t, ok, "ok") /\ th'[t].pc = "open_order")
              => LET contracts ==
                         Max((position_size_usd * leverage * Contract.quanto_den)
                                 \div (th[t].last_price * Contract.quanto_num),
                             Contract.order_size_min)
                 IN  th'[t].size = IF th[t].signal_type = "SHORT"
                                   THEN -contracts ELSE contracts]_vars

\* C29: whenever a ticker with positive prices is evaluated, evaluating the
\* same two prices the other way round in the same state gives the opposite
\* direction (LONG for SHORT, SHORT for LONG, nothing for nothing) with the
\* same spread; and a ticker with equal prices gives no opportunity.
C29_DirectionSymmetric ==
    [][\A t \in Threads :
          (/\ th[t].pc = "idle" /\ th'[t].pc # "idle"
           /\ th'[t].mark_price > 0 /\ th'[t].last_price > 0)
              => LET m  == th'[t].mark_price
                     l  == th'[t].last_price
                     sw == detect_spread(last_alert, now, th'[t].symbol, l, m)
                 IN  /\ m = l => th'[t].signal_type = "none"
                     /\ (th'[t].signal_type = "LONG") = (sw.signal_type = "SHORT")
                     /\ (th'[t].signal_type = "SHORT") = (sw.signal_type = "LONG")
                     /\ (th'[t].signal_type = "none") = (sw.signal_type = "none")
                     /\ th'[t].spread_percent = sw.spread_percent]_vars

\* C29 witness: the ticker mark 100, last 107 has given a SHORT opportunity of
\* 7%, as mark 107, last 100 gives a LONG one of 7%.
C29_Witness ==
    /\ th[1].pc # "idle"
    /\ th[1].mark_price = 100
    /\ th[1].last_price = 107
    /\ th[1].signal_type = "SHORT"
    /\ th[1].spread_percent = 700
    /\ detect_spread([s \in Symbols |-> NoAlert], 0, "A", 107, 100)
           = [signal_type |-> "LONG", spread_percent |-> 700]

\* C30: a ticker whose mark price or last price is not positive yields no
\* opportunity and changes nothing: the cooldown stamps, the ledger, the
\* listing cache, the account and the trade log stay as they are; the
\* callback returns at once, so while it handles that ticker no open is
\* attempted and no exit check is made.
C30_GlitchTickIgnored ==
    /\ [](\A t \in Threads :
            (th[t].pc # "idle" /\ (th[t].mark_price <= 0 \/ th[t].last_price <= 0))
                => /\ th[t].pc = "tick_done"
                   /\ th[t].signal_type = "none"
                   /\ ~th[t].exit_checked
                   /\ ~th[t].close_called
                   /\ ~th[t].opened)
    /\ [][\A t \in Threads :
            (/\ th[t].pc = "idle" /\ th'[t].pc # "idle"
             /\ (th'[t].mark_price <= 0 \/ th'[t].last_price <= 0))
                => /\ detect_spread(last_alert, now, th'[t].symbol,
                                    th'[t].mark_price, th'[t].last_price).signal_type
                          = "none"
                   /\ UNCHANGED <<last_alert, open_positions, position_cache,
                                  position_lock, remote, trades, open_orders,
                                  partial_orders, open_failed, trading_enabled>>]_vars

\* C30 witness: the feed glitch (mark price 0) was handled while trading was
\* enabled and a position for the symbol was tracked, whose exit rules any
\* other ticker would have evaluated.
C30_Witness ==
    /\ th[1].pc = "tick_done"
    /\ th[1].mark_price = 0
    /\ th[1].symbol = "A"
    /\ open_positions["A"] # NoPos
    /\ trading_enabled
    /\ trading_manager

\* C31: when close_position, for a tracked symbol, gets a listing of the
\* account that answers and does not contain the symbol, it removes the
\* position from the ledger and returns: no order is submitted (the account
\* is left as it is) and the trade log gets no record.
C31_CloseOfVanishedDrops ==
    [][\A t \in Threads :
          LET s == th[t].symbol
          IN  (/\ th[t].pc = "close_list" /\ th'[t].pc # "close_list"
               /\ open_positions[s] # NoPos
               /\ last_call' = "ok"
               /\ position_cache'[s] = NoReal)
                  => /\ open_positions'[s] = NoPos
                     /\ th'[t].pc = "tick_done"
                     /\ th'[t].returned = "none"
                     /\ remote' = remote
                     /\ trades' = trades]_vars

\* C31 witness: the tick on which close_position found the tracked position
\* gone from the account has ended: untracked, nothing traded.
C31_Witness ==
    /\ th[1].pc = "tick_done"
    /\ th[1].tracked
    /\ th[1].close_called
    /\ last_call = "ok"
    /\ remote["A"].size = 0
    /\ open_positions["A"] = NoPos
    /\ trades = <<>>

\* C32: the record the recorder appends takes the P&L the exchange reported
\* as pnl_usd whenever trade_data carries one, and the manual
\* size * price difference * quanto only when it carries none; in both cases
\* pnl_percent is pnl_usd over the margin size*entry*quanto/leverage, times
\* 100 (here in whole basis points).
C32_RecorderPrefersRealPnl ==
    [][\A trade_data \in TradeInputs :
          analytics_log_trade(trade_data) =>
              LET r == trades'[Len(trades')]
                  q == trade_data.quanto_multiplier
                  value_num == Abs(trade_data.size) * trade_data.entry_price * q.num
                  scaled == r.pnl_usd * q.den * trade_data.leverage
              IN  /\ trade_data.real_pnl_usd # None
                        => r.pnl_usd = trade_data.real_pnl_usd[1]
                  /\ trade_data.real_pnl_usd = None
                        => r.pnl_usd = manual_pnl_usd(trade_data)
                  /\ value_num > 0
                        => /\ r.pnl_percent * value_num <= scaled
                           /\ scaled < (r.pnl_percent + 1) * value_num]_vars

\* C32 witness: the log holds a trade recorded with the exchange's P&L, which
\* differs from the manual one, and a trade recorded with the manual P&L.
C32_Witness ==
    /\ trading_manager
    /\ \E i \in 1..Len(trades) : \E trade_data \in TradeInputs :
          /\ trade_data.real_pnl_usd # None
          /\ trade_data.real_pnl_usd[1] # manual_pnl_usd(trade_data)
          /\ "pnl_usd" \in DOMAIN trades[i]
          /\ trades[i] = _calculate_pnl(trade_data)
          /\ trades[i].pnl_percent # 0
    /\ \E i \in 1..Len(trades) : \E trade_data \in TradeInputs :
          /\ trade_data.real_pnl_usd = None
          /\ "pnl_usd" \in DOMAIN trades[i]
          /\ trades[i] = _calculate_pnl(trade_data)
          /\ trades[i].pnl_usd # 0

\* C33: without a P&L from the exchange, P&L is size * price difference *
\* quanto, the difference being exit - entry for a long and entry - exit for
\* a short, and ROI is that P&L over the margin size*entry*quanto/leverage,
\* times 100; calculate_unrealized_pnl and the recorder agree on both. For
\* entry 100, exit 110, long, 1000 contracts, quanto 0.0001 and leverage 20
\* this gives 1.0 USD and 200%.
C33_ManualPnlAndRoi ==
    [][\A trade_data \in TradeInputs :
          (analytics_log_trade(trade_data) /\ trade_data.real_pnl_usd = None) =>
              LET r == trades'[Len(trades')]
                  q == trade_data.quanto_multiplier
                  size == Abs(trade_data.size)
                  position == [side |-> trade_data.side, size |-> size,
                               entry_price |-> trade_data.entry_price, quanto |-> q]
                  value_num == size * trade_data.entry_price * q.num
              IN  /\ trade_data.side = "long" =>
                        r.pnl_usd * q.den = size * (trade_data.exit_price
                                  - trade_data.entry_price) * q.num * UsdUnits
                  /\ trade_data.side = "short" =>
                        r.pnl_usd * q.den = size * (trade_data.entry_price
                                  - trade_data.exit_price) * q.num * UsdUnits
                  /\ unrealized_pnl(position, trade_data.exit_price) = r.pnl_usd
                  /\ roi_pct(position, trade_data.exit_price) = r.pnl_percent
                  /\ value_num > 0 =>
                        /\ r.pnl_percent * value_num <= r.pnl_usd * q.den * leverage
                        /\ r.pnl_usd * q.den * leverage < (r.pnl_percent + 1) * value_num
                  /\ (trade_data = TradeData("long", 100, 110, 1000, DefaultQuanto, None))
                        => /\ r.pnl_usd = 1 * UsdUnits
                           /\ r.pnl_percent = 200 * 100]_vars

\* C33 witness: the log holds the example trade, recorded at 1.0 USD and
\* 200%, and a short trade recorded with a manual profit.
C33_Witness ==
    /\ Len(trades) = 2
    /\ trades[1] = _calculate_pnl(TradeData("long", 100, 110, 1000, DefaultQuanto, None))
    /\ trades[1].pnl_usd = UsdUnits
    /\ trades[1].pnl_percent = 20000
    /\ trades[2] = _calculate_pnl(TradeData("short", 110, 100, -4, ContractQuanto, None))
    /\ trades[2].pnl_usd > 0

\* C36: get_statistics over the recorded trades: total_trades is the number
\* of records; winning_trades counts the records with pnl_usd > 0 and
\* winning_trades + losing_trades = total_trades; total_pnl is the sum of
\* pnl_usd; best_trade and worst_trade are records of the log with the
\* greatest and the least pnl_usd; with no records all counts are 0.
C36_StatisticsAggregate ==
    LET s == get_statistics(trades)
        n == Len(trades)
    IN  /\ s.total_trades = n
        /\ s.winning_trades = Cardinality({i \in 1..n : trades[i].pnl_usd > 0})
        /\ s.winning_trades + s.losing_trades = s.total_trades
        /\ n = 0 => /\ s.winning_trades = 0
                    /\ s.losing_trades = 0
                    /\ s.total_pnl = 0
        /\ n = 1 => s.total_pnl = trades[1].pnl_usd
        /\ n = 2 => s.total_pnl = trades[1].pnl_usd + trades[2].pnl_usd
        /\ n = 3 => s.total_pnl = trades[1].pnl_usd + trades[2].pnl_usd
                                      + trades[3].pnl_usd
        /\ n = 4 => s.total_pnl = trades[1].pnl_usd + trades[2].pnl_usd
                                      + trades[3].pnl_usd + trades[4].pnl_usd
        /\ n <= 4
        /\ n > 0 => /\ \E i \in 1..n : s.best_trade = <<trades[i]>>
                    /\ \E i \in 1..n : s.worst_trade = <<trades[i]>>
                    /\ \A i \in 1..n : /\ trades[i].pnl_usd <= s.best_trade[1].pnl_usd
                                       /\ trades[i].pnl_usd >= s.worst_trade[1].pnl_usd

\* C36 witness: statistics over a log with a winning trade, a losing trade
\* and a trade of P&L 0.
C36_Witness ==
    /\ Len(trades) = 3
    /\ \E i \in 1..3 : trades[i].pnl_usd > 0
    /\ \E i \in 1..3 : trades[i].pnl_usd < 0
    /\ \E i \in 1..3 : trades[i].pnl_usd = 0
    /\ get_statistics(trades).winning_trades = 1
    /\ get_statistics(trades).losing_trades = 2

\* C34: the processing of a tick for a symbol never begins while the
\* processing of another tick for that symbol is under way, also when the
\* ticks come over different connections of the client.
C34_PerSymbolTicksInOrder ==
    [][\A t \in Threads :
          (th[t].pc = "idle" /\ th'[t].pc # "idle") =>
              \A u \in Threads \ {t} :
                  th[u].pc = "idle" \/ th[u].symbol # th'[t].symbol]_vars

\* C34 witness: after a reconnect the thread of the second connection is
\* processing a tick for a symbol an earlier tick, processed to its end on
\* the thread of the first connection, had raised an alert for.
C34_Witness ==
    /\ gateio_client.conn[1] = "closed"
    /\ gateio_client.conn[2] = "subscribed"
    /\ th[ws_thread(2)].pc # "idle"
    /\ th[ws_thread(2)].symbol = "A"
    /\ ~th[ws_thread(2)].fresh
    /\ last_alert["A"] # NoAlert
    /\ th[ws_thread(1)].pc = "idle"

C37_OnlyAllowedUserCommands ==
    [][/\ \A user_id \in Senders \ {allowed_user_id}, text \in Texts :
             _handle_update(user_id, text) =>
                 /\ trading_enabled' = trading_enabled
                 /\ telegram'.replies = telegram.replies
                 /\ telegram'.unauthorized = telegram.unauthorized + 1
                 /\ UNCHANGED <<open_positions, trades, started>>
       /\ (trading_enabled' # trading_enabled \/ telegram'.replies # telegram.replies)
             => \E text \in Commands : _handle_update(allowed_user_id, text)]_vars

\* C37 witness: an update of another sender was dropped while trading was
\* enabled, and later the allowed user's /stop disabled trading.
C37_Witness ==
    /\ telegram.unauthorized = 1
    /\ telegram.last_update_id = 2
    /\ Len(telegram.replies) = 1
    /\ telegram.replies[1].command = "/stop"
    /\ ~trading_enabled
    /\ trading_manager

\* C38: every run of send_report hands exactly one report to the notifier,
\* with and without recorded trades: the reports handed over are as many as
\* the runs.
C38_OneReportPerRun ==
    Len(telegram.reports) = telegram.send_report_calls

\* C39: with min_threshold > exit_spread_threshold and take_profit_roi > 0,
\* a tick that opened a position does not close it, fully or partially: its
\* exit check sees a spread of at least min_threshold and an ROI of 0, calls
\* neither close_partial_position nor close_position, and the position stays
\* tracked as it was opened until the tick ends.
C39_NoExitOnOpeningTick ==
    (min_threshold > exit_spread_threshold /\ take_profit_roi > 0) =>
        \A t \in Threads :
            th[t].opened =>
                LET position == open_positions[th[t].symbol]
                IN  /\ th[t].pc \in {"exit_gate", "tick_done"}
                    /\ ~th[t].close_called
                    /\ position # NoPos
                    /\ ~position.partial_closed
                    /\ position.size = Abs(th[t].size)
                    /\ th[t].exit_checked =>
                          /\ th[t].full_exit_evaluated
                          /\ th[t].current_spread >= Pct(min_threshold)
                          /\ roi_pct(position, th[t].last_price) = 0

\* C39 witness: a tick opened a position, its exit check ran with trading
\* enabled and evaluated the full-exit rule, and the tick is about to end.
C39_Witness ==
    /\ th[1].opened
    /\ th[1].pc = "tick_done"
    /\ th[1].exit_checked
    /\ th[1].enabled
    /\ th[1].full_exit_evaluated
    /\ open_positions[th[1].symbol].side = "short"

\* C40: when the take-profit rule fired and the listing close_partial_position
\* got shows a size whose half truncates to 0 (1 contract), no order is
\* submitted, no trade is logged, the tracked position keeps its size and
\* stays without partial_closed, and the full-exit rule is evaluated on that
\* tick; and whenever a partial close is recorded, the tracked size it leaves
\* is the listed size less the closed part and at least 1.
C40_ZeroPartialFallsThrough ==
    [][\A t \in Threads :
          LET s == th[t].symbol
          IN  /\ (/\ th[t].pc = "partial_list"
                  /\ th'[t].pc # "partial_list"
                  /\ open_positions[s] # NoPos
                  /\ position_cache'[s] # NoReal
                  /\ (position_cache'[s].size * 50) \div 100 = 0)
                 => /\ th'[t].full_exit_evaluated
                    /\ th'[t].pc \in {"tick_done", "close_list"}
                    /\ th'[t].pc = "close_list"
                          <=> th[t].current_spread <= Pct(exit_spread_threshold)
                    /\ open_positions' = open_positions
                    /\ remote' = remote
                    /\ partial_orders' = partial_orders
                    /\ trades' = trades
              /\ (th[t].pc = "partial_pnl" /\ th'[t].pc # "partial_pnl")
                 => /\ open_positions'[s] # NoPos
                    /\ open_positions'[s].partial_closed
                    /\ open_positions'[s].size >= 1
                    /\ open_positions'[s].size = th[t].total_size - Abs(th[t].size)
                    /\ Abs(th[t].size) >= 1]_vars

\* C40 witness: the take-profit rule fired for a tracked position of 1
\* contract, the listing answered with that size, and the tick ends with the
\* full-exit rule evaluated, no partial order and the position as it was.
C40_Witness ==
    /\ th[1].pc = "tick_done"
    /\ last_call = "ok"
    /\ th[1].exit_checked
    /\ th[1].full_exit_evaluated
    /\ ~th[1].close_called
    /\ open_positions[th[1].symbol] # NoPos
    /\ take_profit_due(open_positions[th[1].symbol], th[1].last_price)
    /\ open_positions[th[1].symbol].size = 1
    /\ position_cache[th[1].symbol] # NoReal
    /\ position_cache[th[1].symbol].size = 1
    /\ partial_orders[th[1].symbol] = 0
    /\ trades = <<>>

====
